---- MODULE Spec2Model ----
(***************************************************************************)
(* Verification model of the blog frontend.                                *)
(*                                                                         *)
(*   - src/lib/site.ts: site configuration cache and canonical URL helpers *)
(*   - src/lib/api/client.ts: apiFetch error classification                *)
(*   - src/components/articles/ArticleGeneratorForm.tsx: generator form    *)
(*                                                                         *)
(* JavaScript strings are modelled as sequences of one-character strings,  *)
(* so that parsing, trimming, prefix/suffix tests and serialisation are    *)
(* computed character by character.                                        *)
(***************************************************************************)
EXTENDS Integers, Sequences, FiniteSets, TLC

----------------------------------------------------------------------------
(* Character-sequence helpers (String.prototype methods used by the code) *)

Digits == {"0", "1", "2", "3", "4", "5", "6", "7", "8", "9"}

\* String.prototype.startsWith
StartsWith(s, p) ==
    /\ Len(p) <= Len(s)
    /\ SubSeq(s, 1, Len(p)) = p

\* String.prototype.endsWith
EndsWith(s, p) ==
    /\ Len(p) <= Len(s)
    /\ SubSeq(s, Len(s) - Len(p) + 1, Len(s)) = p

\* s.slice(n - 1): the suffix of s starting at 1-based position n
From(s, n) == SubSeq(s, n, Len(s))

\* 1-based position of the first character of s that is in cs, 0 if none
RECURSIVE FirstOf(_, _, _)
FirstOf(s, cs, i) ==
    IF i > Len(s) THEN 0
    ELSE IF s[i] \in cs THEN i
    ELSE FirstOf(s, cs, i + 1)

\* s.split(c)
RECURSIVE Split(_, _)
Split(s, c) ==
    LET i == FirstOf(s, {c}, 1) IN
    IF i = 0 THEN <<s>>
    ELSE <<SubSeq(s, 1, i - 1)>> \o Split(From(s, i + 1), c)

\* parts.join(c)
RECURSIVE Join(_, _)
Join(parts, c) ==
    IF Len(parts) = 0 THEN <<>>
    ELSE IF Len(parts) = 1 THEN parts[1]
    ELSE parts[1] \o <<c>> \o Join(Tail(parts), c)

\* s.replace(/\/+$/, '')
RECURSIVE StripTrailingSlashes(_)
StripTrailingSlashes(s) ==
    IF Len(s) > 0 /\ s[Len(s)] = "/"
    THEN StripTrailingSlashes(SubSeq(s, 1, Len(s) - 1))
    ELSE s

\* s.replace(/^\/+/, '')
RECURSIVE StripLeadingSlashes(_)
StripLeadingSlashes(s) ==
    IF Len(s) > 0 /\ s[1] = "/" THEN StripLeadingSlashes(Tail(s)) ELSE s

\* leading / trailing white space removal of String.prototype.trim
RECURSIVE TrimStart(_)
TrimStart(s) ==
    IF Len(s) > 0 /\ s[1] = " " THEN TrimStart(Tail(s)) ELSE s

RECURSIVE TrimEnd(_)
TrimEnd(s) ==
    IF Len(s) > 0 /\ s[Len(s)] = " "
    THEN TrimEnd(SubSeq(s, 1, Len(s) - 1))
    ELSE s

Trim(s) == TrimEnd(TrimStart(s))

\* /^[1-9]\d*$/.test(s)
IsPositiveInteger(s) ==
    /\ Len(s) > 0
    /\ s[1] \in Digits \ {"0"}
    /\ \A i \in 1..Len(s) : s[i] \in Digits

\* ASCII lower-casing done by the URL scheme and host parser
UpperCase == <<"A", "B", "C", "D", "E", "F", "G", "H", "I", "J", "K", "L", "M",
              "N", "O", "P", "Q", "R", "S", "T", "U", "V", "W", "X", "Y", "Z">>
LowerCase == <<"a", "b", "c", "d", "e", "f", "g", "h", "i", "j", "k", "l", "m",
              "n", "o", "p", "q", "r", "s", "t", "u", "v", "w", "x", "y", "z">>

LowerChar(c) ==
    IF \E i \in 1..Len(UpperCase) : UpperCase[i] = c
    THEN LowerCase[CHOOSE i \in 1..Len(UpperCase) : UpperCase[i] = c]
    ELSE c

Lower(s) == [i \in 1..Len(s) |-> LowerChar(s[i])]

----------------------------------------------------------------------------
(* The URL class used by site.ts (WHATWG URL parsing and serialisation).   *)
(* Covered: scheme, host, path with dot segments, query and fragment of    *)
(* URLs without credentials, port or percent-escapes, which is the         *)
(* alphabet of every input below.                                          *)

Letters == {UpperCase[i] : i \in 1..Len(UpperCase)} \cup {LowerCase[i] : i \in 1..Len(LowerCase)}

\* "https:" and "http:", the two protocols site.ts distinguishes
HttpsProtocol == <<"h", "t", "t", "p", "s", ":">>
HttpProtocol == <<"h", "t", "t", "p", ":">>

\* the value standing for "no URL" in a failed parse
NoUrl ==
    [protocol |-> <<>>, hostname |-> <<>>, pathname |-> <<>>,
     hasQuery |-> FALSE, query |-> <<>>,
     hasFragment |-> FALSE, fragment |-> <<>>]

\* Path state of the URL parser: "." and ".." segments are resolved, a
\* trailing dot segment leaves an empty last segment.
RECURSIVE ResolveDotSegments(_, _)
ResolveDotSegments(segs, acc) ==
    IF Len(segs) = 0 THEN acc
    ELSE
        LET seg == Head(segs)
            isLast == Len(segs) = 1
            popped == IF Len(acc) > 0 THEN SubSeq(acc, 1, Len(acc) - 1) ELSE acc
        IN
        IF seg = <<".", ".">>
        THEN ResolveDotSegments(Tail(segs), IF isLast THEN Append(popped, <<>>) ELSE popped)
        ELSE IF seg = <<".">>
        THEN ResolveDotSegments(Tail(segs), IF isLast THEN Append(acc, <<>>) ELSE acc)
        ELSE ResolveDotSegments(Tail(segs), Append(acc, seg))

\* The pathname of a special URL from the raw path text (which starts with
\* "/" or is empty).
ParsePath(raw) ==
    IF Len(raw) = 0 THEN <<"/">>
    ELSE <<"/">> \o Join(ResolveDotSegments(Split(Tail(raw), "/"), <<>>), "/")

\* s cut at its first character of cs: the text before it and the text
\* after it (all of s and nothing when there is none)
Cut(s, cs) ==
    LET i == FirstOf(s, cs, 1) IN
    [found |-> i # 0,
     before |-> IF i = 0 THEN s ELSE SubSeq(s, 1, i - 1),
     after |-> IF i = 0 THEN <<>> ELSE From(s, i + 1)]

InvalidUrl == [valid |-> FALSE, url |-> NoUrl]

\* scheme state: a letter followed by letters, digits, "+", "-" or "."
ValidScheme(scheme) ==
    /\ Len(scheme) > 0
    /\ scheme[1] \in Letters
    /\ \A i \in 1..Len(scheme) : scheme[i] \in Letters \cup Digits \cup {"+", "-", "."}

\* authority and path states of a special URL: the slashes after the scheme
\* are skipped, the host runs up to the next "/" and is lower-cased, an
\* empty host is a failure
ParseAuthority(protocol, authority, query, fragment) ==
    IF Len(authority.before) = 0 THEN InvalidUrl
    ELSE [valid |-> TRUE,
          url |-> [protocol |-> protocol,
                   hostname |-> Lower(authority.before),
                   pathname |-> ParsePath(IF authority.found
                                          THEN <<"/">> \o authority.after
                                          ELSE <<>>),
                   hasQuery |-> query.found, query |-> query.after,
                   hasFragment |-> fragment.found, fragment |-> fragment.after]]

\* what follows the scheme, cut at "?" (query) and at "#" (fragment)
ParseAfterScheme(protocol, query, fragment) ==
    IF protocol \in {HttpsProtocol, HttpProtocol}
    THEN ParseAuthority(protocol, Cut(StripLeadingSlashes(query.before), {"/"}), query, fragment)
    ELSE [valid |-> TRUE,
          url |-> [protocol |-> protocol, hostname |-> <<>>, pathname |-> query.before,
                   hasQuery |-> query.found, query |-> query.after,
                   hasFragment |-> fragment.found, fragment |-> fragment.after]]

ParseFragment(protocol, fragment) ==
    ParseAfterScheme(protocol, Cut(fragment.before, {"?"}), fragment)

ParseScheme(scheme) ==
    IF ~scheme.found \/ ~ValidScheme(scheme.before) THEN InvalidUrl
    ELSE ParseFragment(Lower(scheme.before) \o <<":">>, Cut(scheme.after, {"#"}))

\* new URL(input), without a base URL
ParseURL(input) == ParseScheme(Cut(Trim(input), {":"}))

\* url.origin of a special URL
Origin(url) == url.protocol \o <<"/", "/">> \o url.hostname

\* url.search: "" when the query is null or empty
Search(url) == IF Len(url.query) = 0 THEN <<>> ELSE <<"?">> \o url.query

\* url.hash: "" when the fragment is null or empty
Hash(url) == IF Len(url.fragment) = 0 THEN <<>> ELSE <<"#">> \o url.fragment

\* url.toString(): a null query or fragment is omitted, an empty one keeps
\* its delimiter
UrlToString(url) ==
    Origin(url) \o url.pathname
        \o (IF url.hasQuery THEN <<"?">> \o url.query ELSE <<>>)
        \o (IF url.hasFragment THEN <<"#">> \o url.fragment ELSE <<>>)

\* url.pathname = value (the setter re-parses the value as a path)
SetPathname(url, value) ==
    [url EXCEPT !.pathname =
        ParsePath(IF StartsWith(value, <<"/">>) THEN value ELSE <<"/">> \o value)]

\* url.search = value: the empty string sets the query to null
SetSearch(url, value) ==
    IF Len(value) = 0
    THEN [url EXCEPT !.hasQuery = FALSE, !.query = <<>>]
    ELSE [url EXCEPT !.hasQuery = TRUE,
                     !.query = IF value[1] = "?" THEN Tail(value) ELSE value]

\* One name=value pair of a query string: split at the first "="
ParsePair(text) ==
    LET eq == FirstOf(text, {"="}, 1) IN
    IF eq = 0 THEN <<text, <<>>>>
    ELSE <<SubSeq(text, 1, eq - 1), From(text, eq + 1)>>

RECURSIVE ParsePairs(_)
ParsePairs(parts) ==
    IF Len(parts) = 0 THEN <<>>
    ELSE IF Len(Head(parts)) = 0 THEN ParsePairs(Tail(parts))
    ELSE <<ParsePair(Head(parts))>> \o ParsePairs(Tail(parts))

\* new URLSearchParams(text): a leading "?" is dropped, empty pieces between
\* "&" are skipped; the result is the list of <<name, value>> pairs
ParseSearchParams(text) ==
    LET body == IF Len(text) > 0 /\ text[1] = "?" THEN Tail(text) ELSE text IN
    ParsePairs(Split(body, "&"))

\* params.get(name): the value of the first pair called name, or null
RECURSIVE ParamsGet(_, _)
ParamsGet(params, name) ==
    IF Len(params) = 0 THEN [found |-> FALSE, value |-> <<>>]
    ELSE IF Head(params)[1] = name THEN [found |-> TRUE, value |-> Head(params)[2]]
    ELSE ParamsGet(Tail(params), name)

RECURSIVE SerializePairs(_)
SerializePairs(params) ==
    IF Len(params) = 0 THEN <<>>
    ELSE <<Head(params)[1] \o <<"=">> \o Head(params)[2]>> \o SerializePairs(Tail(params))

\* params.toString(): name=value pairs joined by "&"
ParamsToString(params) == Join(SerializePairs(params), "&")

----------------------------------------------------------------------------
(* src/lib/site.ts *)

DEFAULT_SITE_URL ==
    <<"h", "t", "t", "p", "s", ":", "/", "/", "w", "i", "e", "d", "z", "a", ".",
      "j", "o", "g", "a", ".", "y", "o", "g", "a">>

\* cachedSiteConfig = null
NoSiteConfig == [null |-> TRUE]

\* process.env.NEXT_PUBLIC_SITE_URL is not set
Undefined == [defined |-> FALSE, value |-> <<>>]
Defined(v) == [defined |-> TRUE, value |-> v]

\* what a call ends with: a returned string or a thrown Error
Returned(v) == [ok |-> TRUE, value |-> v, error |-> "none"]
Thrown(e) == [ok |-> FALSE, value |-> <<>>, error |-> e]

\* normalizeSiteUrl, from url.origin and the path without trailing slashes
SiteUrlParts(origin, normalizedPath) ==
    [baseUrl |-> origin \o (IF normalizedPath = <<"/">> THEN <<>> ELSE normalizedPath),
     basePathname |-> normalizedPath]

normalizeSiteUrl(url) ==
    SiteUrlParts(Origin(url),
                 IF url.pathname = <<"/">> THEN <<"/">> ELSE StripTrailingSlashes(url.pathname))

SiteConfigFailed(error) == [ok |-> FALSE, config |-> NoSiteConfig, error |-> error]

\* the end of resolveSiteConfig: the hostname check and the configuration
\* that is cached and returned
SiteConfigOf(parsed, normalized) ==
    IF Len(parsed.hostname) = 0 THEN SiteConfigFailed("site url must include a hostname")
    ELSE [ok |-> TRUE,
          config |-> [baseUrl |-> normalized.baseUrl,
                      basePathname |-> normalized.basePathname,
                      hostname |-> parsed.hostname],
          error |-> "none"]

SiteConfigFrom(parsed) == SiteConfigOf(parsed, normalizeSiteUrl(parsed))

\* resolveSiteConfig after new URL(rawValue)
SiteConfigFromRaw(first, env) ==
    IF ~first.valid THEN SiteConfigFailed("site url must be a valid absolute URL")
    ELSE IF first.url.protocol = HttpsProtocol THEN SiteConfigFrom(first.url)
    ELSE IF env = "test" THEN SiteConfigFrom(ParseURL(DEFAULT_SITE_URL).url)
    ELSE SiteConfigFailed("site url must use the https protocol")

\* resolveSiteConfig without the test of cachedSiteConfig
resolveSiteConfigUncached(cache, siteUrl, env) ==
    SiteConfigFromRaw(
        ParseURL(IF siteUrl.defined THEN siteUrl.value ELSE DEFAULT_SITE_URL), env)

\* resolveSiteConfig: the configuration returned (and cached) or the Error
\* thrown, from the cache and the environment
resolveSiteConfig(cache, siteUrl, env) ==
    IF cache # NoSiteConfig THEN [ok |-> TRUE, config |-> cache, error |-> "none"]
    ELSE SiteConfigFromRaw(
            ParseURL(IF siteUrl.defined THEN siteUrl.value ELSE DEFAULT_SITE_URL), env)

PageKey == <<"p", "a", "g", "e">>

isAllowedCanonicalSearchParam(key) == key = PageKey

\* the trailing-slash rule at the end of assertValidCanonical
TrimmedPathname(normalizedPath) ==
    IF Len(normalizedPath) > 0 THEN normalizedPath ELSE <<"/">>

NormalizePathname(config, parsed) ==
    IF parsed.pathname # <<"/">> /\ parsed.pathname # config.basePathname \o <<"/">>
    THEN SetPathname(parsed, TrimmedPathname(StripTrailingSlashes(parsed.pathname)))
    ELSE parsed

\* the page check of assertValidCanonical and its return
CheckPage(config, parsed, pageValue) ==
    IF /\ Len(Search(parsed)) > 0
       /\ pageValue.found
       /\ Len(pageValue.value) > 0
       /\ ~IsPositiveInteger(pageValue.value)
    THEN Thrown("page must be a positive integer")
    ELSE Returned(UrlToString(NormalizePathname(config, parsed)))

\* the loop over params.keys()
CheckSearch(config, parsed, params) ==
    IF /\ Len(Search(parsed)) > 0
       /\ \E i \in 1..Len(params) : ~isAllowedCanonicalSearchParam(params[i][1])
    THEN Thrown("unsupported query parameter")
    ELSE CheckPage(config, parsed, ParamsGet(params, PageKey))

\* the protocol, hostname and hash checks
CheckUrl(config, parsed) ==
    IF parsed.protocol # HttpsProtocol THEN Thrown("must use https")
    ELSE IF ~EndsWith(parsed.hostname, config.hostname) THEN Thrown("must remain on hostname")
    ELSE IF Len(Hash(parsed)) > 0 THEN Thrown("must not contain hash fragments")
    ELSE CheckSearch(config, parsed, ParseSearchParams(parsed.query))

CheckParsed(config, result) ==
    IF ~result.valid THEN Thrown("invalid canonical URL")
    ELSE CheckUrl(config, result.url)

\* assertValidCanonical after resolveSiteConfig returned config
assertValidCanonical(config, url) == CheckParsed(config, ParseURL(url))

\* the search argument of buildCanonicalUrl: undefined / null, a string, or
\* a URLSearchParams object (a list of <<name, value>> pairs)
NoSearch == [kind |-> "none", text |-> <<>>, pairs |-> <<>>]
SearchString(text) == [kind |-> "string", text |-> text, pairs |-> <<>>]
SearchParams(pairs) == [kind |-> "params", text |-> <<>>, pairs |-> pairs]

\* buildCanonicalInternal from new URL(...) on
CanonicalOf(config, parsed, hasParams, searchParams) ==
    IF ~parsed.valid THEN Thrown("invalid URL")
    ELSE assertValidCanonical(config,
            UrlToString(IF hasParams
                        THEN SetSearch(parsed.url, ParamsToString(searchParams))
                        ELSE parsed.url))

TrimmedPath(normalizedPath) ==
    IF normalizedPath = <<"/">> THEN <<"/">> ELSE StripTrailingSlashes(normalizedPath)

buildCanonicalInternal(config, pathname, hasParams, searchParams) ==
    CanonicalOf(config,
        ParseURL(config.baseUrl
            \o TrimmedPath(IF StartsWith(pathname, <<"/">>) THEN pathname ELSE <<"/">> \o pathname)),
        hasParams, searchParams)

\* the parameters buildCanonicalUrl reads its page value from
ParamsOf(search) ==
    IF search.kind = "string" THEN ParseSearchParams(search.text)
    ELSE IF search.kind = "params" THEN ParseSearchParams(ParamsToString(search.pairs))
    ELSE <<>>

\* the filtered URLSearchParams of buildCanonicalUrl
FilteredParams(pageValue) ==
    IF /\ pageValue.found
       /\ Len(pageValue.value) > 0
       /\ pageValue.value # <<"1">>
       /\ IsPositiveInteger(pageValue.value)
    THEN <<<<PageKey, pageValue.value>>>>
    ELSE <<>>

\* buildCanonicalUrl without the filter: the parameters are passed on as given
buildCanonicalUrlUnfiltered(config, pathname, search) ==
    buildCanonicalInternal(config, pathname, search.kind \in {"string", "params"}, ParamsOf(search))

buildCanonicalUrl(config, pathname, search) ==
    buildCanonicalInternal(config, pathname, search.kind \in {"string", "params"},
                           FilteredParams(ParamsGet(ParamsOf(search), PageKey)))

ArticlesPrefix == <<"/", "a", "r", "t", "y", "k", "u", "l", "y", "/">>

buildArticleCanonical(config, slug) ==
    buildCanonicalUrl(config,
                      ArticlesPrefix \o StripTrailingSlashes(StripLeadingSlashes(Trim(slug))),
                      NoSearch)

----------------------------------------------------------------------------
(* src/lib/api/client.ts *)

DEFAULT_BASE_URL == <<"h", "t", "t", "p", ":", "/", "/", "l", "o", "c", "a", "l", "h", "o", "s", "t", ":", "8", "0", "0", "0">>

\* JSON values as far as the client looks into them: null, a string, or an
\* object with string-valued properties; undefined is what an error carries
\* in place of a null payload
JsonNull == [type |-> "null", text |-> <<>>, props |-> <<>>]
JsonUndefined == [type |-> "undefined", text |-> <<>>, props |-> <<>>]
JsonString(text) == [type |-> "string", text |-> text, props |-> <<>>]
JsonObject(props) == [type |-> "object", text |-> <<>>, props |-> props]

\* s.replace(/\/$/, '')
StripOneTrailingSlash(s) ==
    IF Len(s) > 0 /\ s[Len(s)] = "/" THEN SubSeq(s, 1, Len(s) - 1) ELSE s

\* env?.replace(/\/$/, '') || DEFAULT_BASE_URL
BaseUrlOr(stripped) == IF Len(stripped) > 0 THEN stripped ELSE DEFAULT_BASE_URL

getApiBaseUrl(apiBaseUrl) ==
    IF apiBaseUrl.defined THEN BaseUrlOr(StripOneTrailingSlash(apiBaseUrl.value))
    ELSE DEFAULT_BASE_URL

\* the directory of a base path: everything up to its last "/"
RECURSIVE DirectoryOf(_)
DirectoryOf(path) ==
    IF Len(path) = 0 \/ path[Len(path)] = "/" THEN path
    ELSE DirectoryOf(SubSeq(path, 1, Len(path) - 1))

\* new URL(relative, base) for a relative path: a base that does not parse,
\* or that has no host to resolve against, is a TypeError
ResolveAgainst(relative, base) ==
    IF ~base.valid \/ base.url.protocol \notin {HttpsProtocol, HttpProtocol} THEN InvalidUrl
    ELSE ParseURL(Origin(base.url) \o DirectoryOf(base.url.pathname) \o relative)

\* url.searchParams.append(key, String(value)) for each entry
AppendSearchParams(url, searchParams) ==
    IF Len(searchParams) = 0 THEN url
    ELSE SetSearch(url, ParamsToString(ParseSearchParams(url.query) \o searchParams))

BuiltUrl(resolved, searchParams) ==
    IF ~resolved.valid THEN InvalidUrl
    ELSE [valid |-> TRUE, url |-> AppendSearchParams(resolved.url, searchParams)]

NormalizedBase(base) == IF EndsWith(base, <<"/">>) THEN base ELSE base \o <<"/">>

\* buildUrl: the URL, or not valid when new URL throws
buildUrl(apiBaseUrl, path, searchParams) ==
    BuiltUrl(ResolveAgainst(IF StartsWith(path, <<"/">>) THEN Tail(path) ELSE path,
                            ParseURL(NormalizedBase(getApiBaseUrl(apiBaseUrl)))),
             searchParams)

\* how a call of apiFetch ends: the value returned, or the error thrown with
\* its class, status and body
Outcome(kind, status, body) == [kind |-> kind, status |-> status, body |-> body]

NotFoundError(body) == Outcome("NotFoundError", 404, body)
ServiceUnavailableError(status, body) == Outcome("ServiceUnavailableError", status, body)
ApiError(status, body) == Outcome("ApiError", status, body)
NetworkError == Outcome("NetworkError", 0, JsonUndefined)
TypeError == Outcome("TypeError", 0, JsonUndefined)

\* the classes for which `error instanceof ApiError` holds
ApiErrorClasses == {"ApiError", "NotFoundError", "ServiceUnavailableError", "NetworkError"}

\* what fetch resolved with: the status line, whether the content type is
\* JSON, whether the body can be read (parsed), and the body
Response(status, isJson, readable, body) ==
    [status |-> status, isJson |-> isJson, readable |-> readable, body |-> body]

\* isJson ? await response.json().catch(() => null)
\*        : await response.text().catch(() => null)
PayloadOf(response) == IF response.readable THEN response.body ELSE JsonNull

\* payload ?? undefined
OrUndefined(payload) == IF payload.type = "null" THEN JsonUndefined ELSE payload

\* response.ok
ResponseOk(response) == response.status \in 200..299

\* a 404 classified as a plain ApiError
TryResponseNo404(response, payload) ==
    IF ResponseOk(response) THEN Outcome("returned", response.status, payload)
    ELSE IF response.status \in {502, 503}
    THEN ServiceUnavailableError(response.status, OrUndefined(payload))
    ELSE ApiError(response.status, OrUndefined(payload))

\* the body of the try block after fetch resolved
TryResponse(response, payload) ==
    IF ResponseOk(response) THEN Outcome("returned", response.status, payload)
    ELSE IF response.status = 404 THEN NotFoundError(OrUndefined(payload))
    ELSE IF response.status \in {502, 503}
    THEN ServiceUnavailableError(response.status, OrUndefined(payload))
    ELSE ApiError(response.status, OrUndefined(payload))

\* the catch block: an ApiError is thrown on, anything else becomes a
\* NetworkError
CatchError(outcome) ==
    IF outcome.kind = "returned" \/ outcome.kind \in ApiErrorClasses THEN outcome
    ELSE NetworkError

\* apiFetch once fetch resolved with response
apiFetchResolved(response) == CatchError(TryResponse(response, PayloadOf(response)))

\* apiFetch once fetch rejected: the rejection is not an ApiError
apiFetchRejected == CatchError(Outcome("FetchRejection", 0, JsonUndefined))

\* the request apiFetch hands to fetch
Request(url, method, hasContentType) ==
    [url |-> UrlToString(url),
     method |-> method,
     accept |-> "application/json",
     contentType |->
        IF method \notin {"GET", "HEAD"} /\ ~hasContentType THEN "application/json"
        ELSE IF hasContentType THEN "given" ELSE "none"]

----------------------------------------------------------------------------
(* src/lib/api/types.ts: the schemas of the article-create request and     *)
(* response                                                                *)

TopicMin == 5
TopicMax == 200
KeywordsMax == 6
GuidanceMax == 500
VideoUrlMax == 2048

\* string | null
Null == [null |-> TRUE, value |-> <<>>]
Str(v) == [null |-> FALSE, value |-> v]

\* value || null
OrNull(v) == IF Len(v) > 0 THEN Str(v) ELSE Null

\* a message shown by the form: one of its own texts, or a text the backend
\* sent; NoMessage is null / undefined
FixedMessage(text) == [text |-> text, chars |-> <<>>]
ServerMessage(chars) == [text |-> "server", chars |-> chars]
NoMessage == [text |-> "null", chars |-> <<>>]

\* the transform of nullableTrimmedString: null stays null, a string is
\* trimmed and becomes null when nothing is left
NullableTrimmed(v) == IF v.null THEN Null ELSE OrNull(Trim(v.value))

\* the refine of nullableTrimmedString(maxLength)
WithinLength(v, maxLength) == v.null \/ Len(v.value) <= maxLength

\* z.string().min(5).max(200) without the lower bound
TopicIssueNoMin(topic) ==
    IF Len(topic) > TopicMax
    THEN FixedMessage("String must contain at most 200 character(s)")
    ELSE NoMessage

\* z.string().min(5).max(200): the first issue of the topic
TopicIssue(topic) ==
    IF Len(topic) < TopicMin
    THEN FixedMessage("String must contain at least 5 character(s)")
    ELSE IF Len(topic) > TopicMax
    THEN FixedMessage("String must contain at most 200 character(s)")
    ELSE NoMessage

\* z.array(z.string()).max(6)
KeywordsIssue(keywords) ==
    IF Len(keywords) > KeywordsMax
    THEN FixedMessage("Array must contain at most 6 element(s)")
    ELSE NoMessage

GuidanceIssue(guidance) ==
    IF WithinLength(guidance, GuidanceMax) THEN NoMessage
    ELSE FixedMessage("String must contain at most 500 character(s)")

VideoUrlIssue(videoUrl) ==
    IF WithinLength(videoUrl, VideoUrlMax) THEN NoMessage
    ELSE FixedMessage("String must contain at most 2048 character(s)")

NoFieldErrors ==
    [topic |-> NoMessage, keywords |-> NoMessage, guidance |-> NoMessage, video_url |-> NoMessage]

\* validation.error.flatten().fieldErrors, the first message of each field
SchemaIssues(data) ==
    [topic |-> TopicIssue(data.topic),
     keywords |-> KeywordsIssue(data.keywords),
     guidance |-> GuidanceIssue(data.guidance),
     video_url |-> VideoUrlIssue(data.video_url)]

SafeParsed(data, issues) ==
    [success |-> issues = NoFieldErrors, data |-> data, fieldErrors |-> issues]

TransformedPayload(payload) ==
    [topic |-> payload.topic,
     rubric_code |-> NullableTrimmed(payload.rubric_code),
     keywords |-> payload.keywords,
     guidance |-> NullableTrimmed(payload.guidance),
     video_url |-> NullableTrimmed(payload.video_url)]

SafeParseData(data) == SafeParsed(data, SchemaIssues(data))

\* articleCreateRequestSchema.safeParse(payload)
safeParseArticleCreateRequest(payload) == SafeParseData(TransformedPayload(payload))

\* body[name] of a JSON object, null when it has no such property
RECURSIVE PropAmong(_, _)
PropAmong(props, name) ==
    IF Len(props) = 0 THEN Null
    ELSE IF Head(props)[1] = name THEN Str(Head(props)[2])
    ELSE PropAmong(Tail(props), name)

PropOf(body, name) == IF body.type = "object" THEN PropAmong(body.props, name) ELSE Null

Published == <<"p", "u", "b", "l", "i", "s", "h", "e", "d">>

\* articlePublishResponseSchema.parse(data) succeeds
IsPublishResponse(data) ==
    /\ PropOf(data, "status") = Str(Published)
    /\ ~PropOf(data, "slug").null
    /\ ~PropOf(data, "id").null

ZodError == Outcome("ZodError", 0, JsonUndefined)

\* createArticle after apiFetch ended with outcome: a returned payload is
\* parsed by articlePublishResponseSchema
ParsedPublishResponse(outcome) ==
    IF outcome.kind = "returned" /\ ~IsPublishResponse(outcome.body) THEN ZodError
    ELSE outcome

----------------------------------------------------------------------------
(* src/components/articles/ArticleGeneratorForm.tsx: pure functions *)

KeywordLength == 80
KeywordCount == 6
VideoLabelLength == 80
FallbackLength == 200
FallbackMin == 5
HistoryLength == 10

\* s.slice(0, n)
Take(s, n) == SubSeq(s, 1, IF Len(s) < n THEN Len(s) ELSE n)

\* s.includes(sub)
Includes(s, sub) ==
    \E i \in 1..(Len(s) - Len(sub) + 1) : SubSeq(s, i, i + Len(sub) - 1) = sub

\* parts.map((keyword) => keyword.trim()).filter(Boolean)
\*      .map((keyword) => keyword.slice(0, 80))
RECURSIVE TrimmedKeywords(_)
TrimmedKeywords(parts) ==
    IF Len(parts) = 0 THEN <<>>
    ELSE IF Len(Trim(Head(parts))) = 0 THEN TrimmedKeywords(Tail(parts))
    ELSE <<Take(Trim(Head(parts)), KeywordLength)>> \o TrimmedKeywords(Tail(parts))

parseKeywords(value) ==
    IF Len(Trim(value)) = 0 THEN <<>>
    ELSE Take(TrimmedKeywords(Split(value, ",")), KeywordCount)

\* parts.filter(Boolean)
RECURSIVE NonEmptyParts(_)
NonEmptyParts(parts) ==
    IF Len(parts) = 0 THEN <<>>
    ELSE IF Len(Head(parts)) = 0 THEN NonEmptyParts(Tail(parts))
    ELSE <<Head(parts)>> \o NonEmptyParts(Tail(parts))

VideoKey == <<"v">>

LabelFromPath(url, path) ==
    IF Len(path) > 0 THEN path[Len(path)] ELSE url.hostname

LabelFromUrl(url, queryId) ==
    IF queryId.found /\ Len(queryId.value) > 0 THEN queryId.value
    ELSE LabelFromPath(url, NonEmptyParts(Split(url.pathname, "/")))

LabelFromParsed(videoUrl, parsed) ==
    IF ~parsed.valid THEN Take(videoUrl, VideoLabelLength)
    ELSE LabelFromUrl(parsed.url, ParamsGet(ParseSearchParams(parsed.url.query), VideoKey))

extractVideoLabel(videoUrl) ==
    IF Len(videoUrl) = 0 THEN <<>> ELSE LabelFromParsed(videoUrl, ParseURL(videoUrl))

FallbackPrefix == <<"A", "r", "t", "y", "k", "u", "l", " ", "n", "a", " ", "p", "o", "d", "s", "t", "a", "w", "i", "e", " ", "w", "i", "d", "e", "o", " ">>
FallbackLabel == <<"Y", "o", "u", "T", "u", "b", "e">>
FallbackTopic == <<"A", "r", "t", "y", "k", "u", "l", " ", "n", "a", " ", "p", "o", "d", "s", "t", "a", "w", "i", "e", " ", "Y", "o", "u", "T", "u", "b", "e">>

FallbackFor(videoLabel) ==
    Take(FallbackPrefix \o (IF Len(videoLabel) > 0 THEN videoLabel ELSE FallbackLabel),
         FallbackLength)

FallbackOrDefault(fallback) == IF Len(fallback) >= FallbackMin THEN fallback ELSE FallbackTopic

\* resolveTopic() in the given mode
resolveTopic(mode_, topic, videoUrl) ==
    IF Len(Trim(topic)) > 0 THEN Trim(topic)
    ELSE FallbackOrDefault(FallbackFor(IF mode_ = "youtube" THEN extractVideoLabel(videoUrl) ELSE <<>>))

\* the messages of the form (Polish letters are written without their
\* diacritical marks, one character for one character)
FixFieldsMessage == FixedMessage("Popraw zaznaczone pola i sprobuj ponownie.")
PasteVideoMessage == FixedMessage("Wklej link do wideo, aby wygenerowac artykul.")
NoVideoMessage == FixedMessage("Nie podano linku do wideo.")
UnavailableMessage ==
    FixedMessage("Generowanie artykulu jest chwilowo niedostepne. Sprobuj ponownie za kilka minut.")
TranscriptMessage ==
    FixedMessage("To wideo nie ma transkrypcji lub nie jest ona dostepna. Wybierz inne wideo lub sprobuj ponownie pozniej.")
CreateFailedMessage ==
    FixedMessage("Nie udalo sie utworzyc artykulu. Sprawdz dane wejsciowe i sprobuj ponownie.")
UnexpectedMessage == FixedMessage("Wystapil nieoczekiwany blad.")

\* a || b on string | null
Either(a, b) == IF ~a.null /\ Len(a.value) > 0 THEN a ELSE b

TextOf(body) ==
    IF body.type = "string" THEN OrNull(Trim(body.text)) ELSE Null

\* err.body.detail || err.body.message || err.body.trim() || null
BodyMessage(body) ==
    Either(PropOf(body, "detail"), Either(PropOf(body, "message"), Either(TextOf(body), Null)))

Transcript == <<"t", "r", "a", "n", "s", "c", "r", "i", "p", "t">>

\* message ?? fallback
MessageOr(message, fallback) == IF message.null THEN fallback ELSE ServerMessage(message.value)

UnprocessableMessage(message) ==
    IF ~message.null /\ Includes(Lower(message.value), Transcript) THEN TranscriptMessage
    ELSE MessageOr(message, CreateFailedMessage)

ApiErrorMessage(status_, message) ==
    IF status_ = 422 THEN UnprocessableMessage(message)
    ELSE MessageOr(message, CreateFailedMessage)

\* a first branch that looks at the class only
IsUnavailableByClass(outcome) == outcome.kind = "ServiceUnavailableError"

\* the service-unavailable branch of the catch block
IsUnavailable(outcome) ==
    \/ outcome.kind = "ServiceUnavailableError"
    \/ outcome.kind \in ApiErrorClasses /\ outcome.status >= 500

\* the error message the catch block sets
CatchMessage(outcome) ==
    IF IsUnavailable(outcome) THEN UnavailableMessage
    ELSE IF outcome.kind \in ApiErrorClasses
    THEN ApiErrorMessage(outcome.status, BodyMessage(outcome.body))
    ELSE UnexpectedMessage

\* the field errors the catch block sets
CatchFieldErrors(outcome, previous) ==
    IF ~IsUnavailable(outcome) /\ outcome.kind \in ApiErrorClasses /\ outcome.status = 422
    THEN [previous EXCEPT !.video_url = MessageOr(BodyMessage(outcome.body), previous.video_url)]
    ELSE previous

\* the error details the catch block sets: JSON.stringify(err.body) of an
\* object, null otherwise or when the branch sets none
CatchDetails(outcome, previous) ==
    IF IsUnavailable(outcome) \/ outcome.kind \notin ApiErrorClasses THEN previous
    ELSE IF outcome.body.type = "object" THEN outcome.body
    ELSE JsonNull

----------------------------------------------------------------------------
(* JavaScript numbers and JSON values as the list helpers see them.        *)
(* A finite number is m * 10^e with m not divisible by ten (0 is 0 * 10^0); *)
(* the largest finite double is 1.797...e308, anything beyond is Infinity.  *)

RECURSIVE Pow10(_)
Pow10(k) == IF k <= 0 THEN 1 ELSE 10 * Pow10(k - 1)

Abs(n) == IF n < 0 THEN 0 - n ELSE n

\* the number of decimal digits of n >= 0 (1 for 0)
RECURSIVE DigitCount(_)
DigitCount(n) == IF n < 10 THEN 1 ELSE 1 + DigitCount(n \div 10)

NaN == [type |-> "number", kind |-> "NaN", m |-> 0, e |-> 0]
Infinity == [type |-> "number", kind |-> "Infinity", m |-> 0, e |-> 0]
NegativeInfinity == [type |-> "number", kind |-> "-Infinity", m |-> 0, e |-> 0]

\* floor(log10(|m * 10^e|)) for m # 0
Magnitude(m, e) == e + DigitCount(Abs(m)) - 1

\* the first four significant digits of m # 0
Leading(m) ==
    IF DigitCount(Abs(m)) >= 4 THEN Abs(m) \div Pow10(DigitCount(Abs(m)) - 4)
    ELSE Abs(m) * Pow10(4 - DigitCount(Abs(m)))

\* |m * 10^e| is beyond Number.MAX_VALUE (1.797e308 to four digits)
IsTooBig(m, e) ==
    /\ m # 0
    /\ \/ Magnitude(m, e) > 308
       \/ Magnitude(m, e) = 308 /\ Leading(m) > 1797

RECURSIVE Normalized(_, _)
Normalized(m, e) ==
    IF m = 0 THEN [type |-> "number", kind |-> "finite", m |-> 0, e |-> 0]
    ELSE IF m % 10 = 0 THEN Normalized(m \div 10, e + 1)
    ELSE [type |-> "number", kind |-> "finite", m |-> m, e |-> e]

\* the double nearest to m * 10^e: values too small for a double are 0
NumberOf(m, e) ==
    IF IsTooBig(m, e) THEN (IF m > 0 THEN Infinity ELSE NegativeInfinity)
    ELSE IF m # 0 /\ Magnitude(m, e) < 0 - 324 THEN Normalized(0, 0)
    ELSE Normalized(m, e)

FromInt(n) == NumberOf(n, 0)

IsNumber(v) == v.type = "number"

\* typeof v === 'number' && Number.isFinite(v)
IsFiniteNumber(v) == v.type = "number" /\ v.kind = "finite"

IsPositive(n) == n.kind = "Infinity" \/ (n.kind = "finite" /\ n.m > 0)

\* n >= 1 for a finite n
AtLeastOne(n) == n.m > 0 /\ Magnitude(n.m, n.e) >= 0

\* Math.floor(n) for a finite n
Floor(n) ==
    IF n.e >= 0 THEN n
    ELSE IF 0 - n.e <= 9 THEN FromInt(n.m \div Pow10(0 - n.e))
    ELSE IF n.m < 0 THEN FromInt(0 - 1)
    ELSE FromInt(0)

\* Math.min(Math.max(n, low), high) for an integer-valued finite n and
\* integers 1 <= low <= high < 10^4
Clamped(n, low, high) ==
    IF n.m <= 0 THEN low
    ELSE IF Magnitude(n.m, n.e) >= 4 THEN high
    ELSE IF n.m * Pow10(n.e) > high THEN high
    ELSE IF n.m * Pow10(n.e) < low THEN low
    ELSE n.m * Pow10(n.e)

DigitChars == <<"0", "1", "2", "3", "4", "5", "6", "7", "8", "9">>

\* the decimal digits of n >= 0
RECURSIVE DecimalString(_)
DecimalString(n) ==
    IF n < 10 THEN <<DigitChars[n + 1]>>
    ELSE DecimalString(n \div 10) \o <<DigitChars[(n % 10) + 1]>>

Zeros(k) == [i \in 1..k |-> "0"]

\* the digits of a mantissa in exponent notation: d or d.ddd
ExponentDigits(digits) ==
    IF Len(digits) = 1 THEN digits ELSE <<Head(digits), ".">> \o Tail(digits)

\* String(n) for an integer-valued finite n: decimal digits below 1e21,
\* exponent notation from there on
IntegerToString(n) ==
    (IF n.m < 0 THEN <<"-">> ELSE <<>>) \o
    (IF Magnitude(n.m, n.e) < 21 THEN DecimalString(Abs(n.m)) \o Zeros(n.e)
     ELSE ExponentDigits(DecimalString(Abs(n.m))) \o <<"e", "+">>
          \o DecimalString(Magnitude(n.m, n.e)))

AllDigits(s) == \A i \in 1..Len(s) : s[i] \in Digits

\* the value of a string of digits ("" is 0)
RECURSIVE DigitsValue(_)
DigitsValue(s) ==
    IF Len(s) = 0 THEN 0
    ELSE 10 * DigitsValue(SubSeq(s, 1, Len(s) - 1))
         + (CHOOSE d \in 0..9 : DigitChars[d + 1] = s[Len(s)])

HasSign(s) == Len(s) > 0 /\ s[1] \in {"+", "-"}
Unsigned(s) == IF HasSign(s) THEN Tail(s) ELSE s
SignOf(s) == IF Len(s) > 0 /\ s[1] = "-" THEN 0 - 1 ELSE 1

\* the parts of an unsigned decimal literal: digits, fraction, exponent
MantissaText(u) ==
    IF FirstOf(u, {"e", "E"}, 1) = 0 THEN u ELSE SubSeq(u, 1, FirstOf(u, {"e", "E"}, 1) - 1)
ExponentText(u) ==
    IF FirstOf(u, {"e", "E"}, 1) = 0 THEN <<>> ELSE From(u, FirstOf(u, {"e", "E"}, 1) + 1)
HasExponent(u) == FirstOf(u, {"e", "E"}, 1) # 0
IntegerText(mt) ==
    IF FirstOf(mt, {"."}, 1) = 0 THEN mt ELSE SubSeq(mt, 1, FirstOf(mt, {"."}, 1) - 1)
FractionText(mt) ==
    IF FirstOf(mt, {"."}, 1) = 0 THEN <<>> ELSE From(mt, FirstOf(mt, {"."}, 1) + 1)

IsDecimalLiteral(u) ==
    /\ AllDigits(IntegerText(MantissaText(u)))
    /\ AllDigits(FractionText(MantissaText(u)))
    /\ Len(IntegerText(MantissaText(u))) + Len(FractionText(MantissaText(u))) > 0
    /\ HasExponent(u) =>
        /\ Len(Unsigned(ExponentText(u))) > 0
        /\ AllDigits(Unsigned(ExponentText(u)))

DecimalValue(sign, u) ==
    NumberOf(sign * DigitsValue(IntegerText(MantissaText(u)) \o FractionText(MantissaText(u))),
             SignOf(ExponentText(u)) * DigitsValue(Unsigned(ExponentText(u)))
             - Len(FractionText(MantissaText(u))))

InfinityText == <<"I", "n", "f", "i", "n", "i", "t", "y">>

\* Number(s) for a string s: white space is trimmed, '' is 0, a decimal
\* literal is its value, anything else is NaN (hexadecimal, octal and binary
\* literals are not among the inputs)
ToNumber(s) ==
    IF Len(Trim(s)) = 0 THEN FromInt(0)
    ELSE IF Unsigned(Trim(s)) = InfinityText
    THEN (IF SignOf(Trim(s)) < 0 THEN NegativeInfinity ELSE Infinity)
    ELSE IF IsDecimalLiteral(Unsigned(Trim(s))) THEN DecimalValue(SignOf(Trim(s)), Unsigned(Trim(s)))
    ELSE NaN

\* total / size for finite total and size > 0 is beyond Number.MAX_VALUE
QuotientOverflows(total, size) ==
    LET d == Magnitude(total.m, total.e) - Magnitude(size.m, size.e) IN
    /\ total.m # 0
    /\ \/ d >= 310
       \/ d = 309 /\ Leading(total.m) * 10000 > 1797 * Leading(size.m)
       \/ d = 308 /\ Leading(total.m) * 1000 > 1797 * Leading(size.m)

\* the least integer >= a / b for integers a and b > 0
CeilOf(a, b) == 0 - ((0 - a) \div b)

\* Math.max(1, Math.ceil(total / size)) for finite total and size > 0: exact
\* while the division fits nine digits, kept to four digits beyond
PagesFor(total, size) ==
    LET d == Magnitude(total.m, total.e) - Magnitude(size.m, size.e) IN
    IF total.m <= 0 THEN FromInt(1)
    ELSE IF QuotientOverflows(total, size) THEN Infinity
    ELSE IF d < 0 - 1 THEN FromInt(1)
    ELSE IF d + DigitCount(Abs(size.m)) > 9
    THEN NumberOf((Leading(total.m) * 1000) \div Leading(size.m), d - 3)
    ELSE IF total.e >= size.e
    THEN FromInt(CeilOf(total.m * Pow10(total.e - size.e), size.m))
    ELSE FromInt(CeilOf(total.m, size.m * Pow10(size.e - total.e)))

\* JSON values: undefined stands for an absent property
NoValue == [type |-> "undefined"]
NullValue == [type |-> "null"]
TextValue(chars) == [type |-> "string", chars |-> chars]
ArrayValue(items) == [type |-> "array", items |-> items]
\* an object: a function from the names of its own properties to their values
RecordValue(fields) == [type |-> "object", fields |-> fields]
BooleanValue(b) == [type |-> "boolean", value |-> b]

\* Object.prototype.hasOwnProperty.call(value, key)
HasOwn(value, key) == value.type = "object" /\ key \in DOMAIN value.fields

\* value[key] (value?.[key] when value is undefined)
Get(value, key) == IF HasOwn(value, key) THEN value.fields[key] ELSE NoValue

IsNullish(value) == value.type \in {"undefined", "null"}

\* a ?? b
Coalesce(a, b) == IF IsNullish(a) THEN b ELSE a

----------------------------------------------------------------------------
(* src/lib/api/types.ts: articleSummarySchema and toPaged *)

\* a coerceNumber that takes numbers only
coerceNumberStrictly(value) == IF IsFiniteNumber(value) THEN value ELSE NoValue

\* coerceNumber
coerceNumber(value) ==
    IF IsFiniteNumber(value) THEN value
    ELSE IF value.type = "string" /\ IsFiniteNumber(ToNumber(value.chars))
    THEN ToNumber(value.chars)
    ELSE NoValue

\* value.map((tag) => tag.trim()).filter(Boolean) on the texts of an array
RECURSIVE TrimmedTags(_)
TrimmedTags(texts) ==
    IF Len(texts) = 0 THEN <<>>
    ELSE IF Len(Trim(Head(texts))) = 0 THEN TrimmedTags(Tail(texts))
    ELSE <<Trim(Head(texts))>> \o TrimmedTags(Tail(texts))

\* tagsValueSchema accepts an array of strings, a string, null or undefined
IsTagsValue(value) ==
    \/ value.type \in {"string", "null", "undefined"}
    \/ /\ value.type = "array"
       /\ \A i \in 1..Len(value.items) : value.items[i].type = "string"

\* the transform of tagsValueSchema (a string that is itself a JSON array is
\* not among the inputs: any other string is split at commas)
tagsValue(value) ==
    IF value.type = "array" THEN TrimmedTags([i \in 1..Len(value.items) |-> value.items[i].chars])
    ELSE IF value.type = "string" THEN TrimmedTags(Split(value.chars, ","))
    ELSE <<>>

IsSectionValue(value) == value.type \in {"string", "null", "undefined"}

\* the transform of sectionValueSchema
sectionValue(value) ==
    IF value.type = "string" /\ Len(Trim(value.chars)) > 0 THEN TextValue(Trim(value.chars))
    ELSE NullValue

\* articleSummarySchema accepts item
IsArticleSummary(item) ==
    /\ item.type = "object"
    /\ Get(item, "slug").type = "string"
    /\ Get(item, "title").type = "string"
    /\ Get(item, "created_at").type = "string"
    /\ Get(item, "updated_at").type = "string"
    /\ IsSectionValue(Get(item, "section"))
    /\ IsTagsValue(Get(item, "tags"))

\* what articleSummarySchema parses item into
articleSummary(item) ==
    [slug |-> Get(item, "slug").chars,
     title |-> Get(item, "title").chars,
     section |-> sectionValue(Get(item, "section")),
     tags |-> tagsValue(Get(item, "tags")),
     created_at |-> Get(item, "created_at").chars,
     updated_at |-> Get(item, "updated_at").chars]

\* z.array(itemSchema).safeParse(value).success
IsItemArray(value) ==
    /\ value.type = "array"
    /\ \A i \in 1..Len(value.items) : IsArticleSummary(value.items[i])

\* a parseItems that keeps the items it can parse and says nothing
RECURSIVE ValidSummaries(_)
ValidSummaries(items) ==
    IF Len(items) = 0 THEN <<>>
    ELSE IF IsArticleSummary(Head(items))
    THEN <<articleSummary(Head(items))>> \o ValidSummaries(Tail(items))
    ELSE ValidSummaries(Tail(items))

parseItemsLeniently(value) ==
    IF value.type # "array" THEN [items |-> <<>>, warned |-> FALSE]
    ELSE [items |-> ValidSummaries(value.items), warned |-> FALSE]

\* parseItems: the items, and whether console.warn was called
parseItems(value) ==
    IF value.type = "undefined" THEN [items |-> <<>>, warned |-> FALSE]
    ELSE IF ~IsItemArray(value) THEN [items |-> <<>>, warned |-> TRUE]
    ELSE [items |-> [i \in 1..Len(value.items) |-> articleSummary(value.items[i])],
          warned |-> FALSE]

\* resolvedPageSize > 0 ? Math.max(1, Math.ceil(total / resolvedPageSize))
\*                      : total > 0 ? 1 : 0
PagesOf(total, pageSize) ==
    IF IsPositive(pageSize) THEN PagesFor(total, pageSize)
    ELSE IF IsPositive(total) THEN FromInt(1)
    ELSE FromInt(0)

\* resolveFromItems: total, pageSize and totalPages for the parsed items
ItemsTotal(parsed, metaSource) ==
    Coalesce(coerceNumber(Get(metaSource, "total")),
             Coalesce(coerceNumber(Get(metaSource, "total_items")),
                      FromInt(Len(parsed.items))))

ItemsPageSize(parsed, metaSource) ==
    Coalesce(coerceNumber(Get(metaSource, "page_size")),
             Coalesce(coerceNumber(Get(metaSource, "per_page")),
                      FromInt(Len(parsed.items))))

ItemsTotalPages(parsed, metaSource) ==
    Coalesce(coerceNumber(Get(metaSource, "total_pages")),
             PagesOf(ItemsTotal(parsed, metaSource), ItemsPageSize(parsed, metaSource)))

Paged(parsed, total, page, pageSize, totalPages) ==
    [items |-> parsed.items, total |-> total, page |-> page, page_size |-> pageSize,
     total_pages |-> totalPages, warned |-> parsed.warned]

\* toPaged for a bare array
PagedArray(data) ==
    Paged(parseItems(data),
          ItemsTotal(parseItems(data), NoValue),
          FromInt(1),
          ItemsPageSize(parseItems(data), NoValue),
          ItemsTotalPages(parseItems(data), NoValue))

\* typeof record.meta === 'object' && record.meta !== null ? record.meta : undefined
MetaOf(record) ==
    IF Get(record, "meta").type \in {"object", "array"} THEN Get(record, "meta") ELSE NoValue

\* record.items, else record.results, else record.data when it is an array
ItemsSource(record) ==
    IF HasOwn(record, "items") THEN Get(record, "items")
    ELSE IF HasOwn(record, "results") THEN Get(record, "results")
    ELSE IF Get(record, "data").type = "array" THEN Get(record, "data")
    ELSE NoValue

MetaKeys == {"total", "total_items", "page_size", "per_page", "total_pages"}

\* {...meta, total: record.total ?? meta?.total, ...}: the properties
\* resolveFromItems reads
MetaSource(record) ==
    RecordValue([key \in MetaKeys |-> Coalesce(Get(record, key), Get(MetaOf(record), key))])

\* coerceNumber(record[first]) ?? coerceNumber(record[second])
\*   ?? coerceNumber(meta?.[first]) ?? coerceNumber(meta?.[second]) ?? fallback
ResolvedNumber(record, first, second, fallback) ==
    Coalesce(coerceNumber(Get(record, first)),
             Coalesce(coerceNumber(Get(record, second)),
                      Coalesce(coerceNumber(Get(MetaOf(record), first)),
                               Coalesce(coerceNumber(Get(MetaOf(record), second)), fallback))))

RecordPage(record) ==
    Coalesce(coerceNumber(Get(record, "page")),
             Coalesce(coerceNumber(Get(record, "current_page")),
                      Coalesce(coerceNumber(Get(MetaOf(record), "page")), FromInt(1))))

RecordPageSize(record) ==
    ResolvedNumber(record, "page_size", "per_page",
             ItemsPageSize(parseItems(ItemsSource(record)), MetaSource(record)))

RecordTotal(record) ==
    ResolvedNumber(record, "total", "total_items",
             ItemsTotal(parseItems(ItemsSource(record)), MetaSource(record)))

RecordTotalPages(record) ==
    Coalesce(coerceNumber(Get(record, "total_pages")),
             Coalesce(coerceNumber(Get(MetaOf(record), "total_pages")),
                      PagesOf(RecordTotal(record), RecordPageSize(record))))

\* toPaged for an object
PagedRecord(record) ==
    Paged(parseItems(ItemsSource(record)), RecordTotal(record), RecordPage(record),
          RecordPageSize(record), RecordTotalPages(record))

\* toPaged for anything else: emptyPaged and a warning
emptyPaged ==
    [items |-> <<>>, total |-> FromInt(0), page |-> FromInt(1), page_size |-> FromInt(0),
     total_pages |-> FromInt(0), warned |-> TRUE]

\* toPaged(data, articleSummarySchema), that is parseArticleListResponse(data)
toPaged(data) ==
    IF data.type = "array" THEN PagedArray(data)
    ELSE IF data.type = "object" THEN PagedRecord(data)
    ELSE emptyPaged

----------------------------------------------------------------------------
(* src/lib/api/client.ts: serializeArticleListQuery *)

MAX_PER_PAGE == 50
MIN_PER_PAGE == 1

QueryKeys == {"page", "per_page", "section", "q"}

\* value && value.trim() for a string | undefined
IsFilled(value) == value.type = "string" /\ Len(Trim(value.chars)) > 0

\* the conditions under which serializeArticleListQuery sets params[key]
HasParam(query, key) ==
    IF key = "page" THEN IsFiniteNumber(query.page) /\ AtLeastOne(query.page)
    ELSE IF key = "per_page" THEN IsFiniteNumber(query.per_page)
    ELSE IsFilled(query[key])

\* Math.min(Math.max(Math.floor(perPage), MIN_PER_PAGE), MAX_PER_PAGE)
\* without the upper bound
BoundedBelow(perPage) ==
    IF Floor(perPage).m <= 0 THEN MIN_PER_PAGE
    ELSE IF Magnitude(Floor(perPage).m, Floor(perPage).e) >= 4 THEN Pow10(4)
    ELSE Floor(perPage).m * Pow10(Floor(perPage).e)

\* Math.min(Math.max(Math.floor(perPage), MIN_PER_PAGE), MAX_PER_PAGE)
Bounded(perPage) == Clamped(Floor(perPage), MIN_PER_PAGE, MAX_PER_PAGE)

\* the value serializeArticleListQuery sets params[key] to
ParamOf(query, key) ==
    IF key = "page" THEN IntegerToString(Floor(query.page))
    ELSE IF key = "per_page" THEN DecimalString(Bounded(query.per_page))
    ELSE Trim(query[key].chars)

serializeArticleListQuery(query) ==
    [key \in {k \in QueryKeys : HasParam(query, k)} |-> ParamOf(query, key)]

----------------------------------------------------------------------------
(* tools/src/markdown.ts: the markdown twin of an article *)

NEWLINE == "\n"

\* the characters String.prototype.trim removes and \s matches
WhiteSpace == {" ", "\n", "\r", "\t"}

RECURSIVE TrimWhiteStart(_)
TrimWhiteStart(s) ==
    IF Len(s) > 0 /\ s[1] \in WhiteSpace THEN TrimWhiteStart(Tail(s)) ELSE s

\* String.prototype.trimEnd
RECURSIVE TrimWhiteEnd(_)
TrimWhiteEnd(s) ==
    IF Len(s) > 0 /\ s[Len(s)] \in WhiteSpace
    THEN TrimWhiteEnd(SubSeq(s, 1, Len(s) - 1))
    ELSE s

\* String.prototype.trim
TrimWhite(s) == TrimWhiteEnd(TrimWhiteStart(s))

\* parts[lo] \o ... \o parts[hi]
RECURSIVE Concat(_, _, _)
Concat(parts, lo, hi) ==
    IF lo > hi THEN <<>>
    ELSE IF lo = hi THEN parts[lo]
    ELSE Concat(parts, lo, (lo + hi) \div 2) \o Concat(parts, (lo + hi) \div 2 + 1, hi)

\* value with the character at each position i replaced by by(value, i)
Replaced(value, by(_, _)) ==
    IF \A i \in 1..Len(value) : by(value, i) = <<value[i]>> THEN value
    ELSE Concat([i \in 1..Len(value) |-> by(value, i)], 1, Len(value))

\* what /\r\n/g and then /\r/g leave of the character at position i
NewlineAt(value, i) ==
    IF value[i] = "\r" THEN <<NEWLINE>>
    ELSE IF value[i] = "\n" /\ i > 1 /\ value[i - 1] = "\r" THEN <<>>
    ELSE <<value[i]>>

\* normalizeNewlines
normalizeNewlines(value) == Replaced(value, NewlineAt)

\* ensureTrailingNewline
ensureTrailingNewline(value) ==
    IF Len(value) > 0 /\ value[Len(value)] = NEWLINE THEN value ELSE value \o <<NEWLINE>>

YamlEscapedAt(value, i) == IF value[i] = "\"" THEN <<"\\", "\"">> ELSE <<value[i]>>

\* escapeYamlString
escapeYamlString(value) == Replaced(value, YamlEscapedAt)

\* the characters of a string inside a JSON string literal (the control
\* characters other than \n, \r and \t are not among the inputs)
JsonEscapedAt(value, i) ==
    IF value[i] = "\"" THEN <<"\\", "\"">>
    ELSE IF value[i] = "\\" THEN <<"\\", "\\">>
    ELSE IF value[i] = "\n" THEN <<"\\", "n">>
    ELSE IF value[i] = "\r" THEN <<"\\", "r">>
    ELSE IF value[i] = "\t" THEN <<"\\", "t">>
    ELSE <<value[i]>>

JsonEscaped(value) == Replaced(value, JsonEscapedAt)

\* JSON.stringify(input ?? []) for an optional array of strings
stringifyArray(input) ==
    <<"[">> \o Join([i \in 1..Len(input.value) |-> <<"\"">> \o JsonEscaped(input.value[i]) \o <<"\"">>],
                    ",") \o <<"]">>

\* parts.join(NEWLINE)
JoinLines(parts) == Join(parts, NEWLINE)

\* `key: "${escapeYamlString(value)}"`
YamlLine(key, value) == key \o <<":", " ", "\"">> \o escapeYamlString(value) \o <<"\"">>

\* `key: ${array}`
ArrayLine(key, input) == key \o <<":", " ">> \o stringifyArray(input)

formatSection(section) ==
    JoinLines(<<<<"#", "#", " ">> \o TrimWhite(section.title),
                normalizeNewlines(TrimWhite(section.body)),
                <<>>>>)

formatFaqEntry(faq) ==
    JoinLines(<<<<"*", "*">> \o normalizeNewlines(TrimWhite(faq.question)) \o <<"*", "*", " ", " ">>,
                normalizeNewlines(TrimWhite(faq.answer)),
                <<>>>>)

FaqHeading == <<"#", "#", " ", "F", "A", "Q">>

formatFaqBlock(faqItems) ==
    IF faqItems.null \/ Len(faqItems.value) = 0 THEN <<>>
    ELSE JoinLines(<<FaqHeading,
                     TrimWhiteEnd(JoinLines([i \in 1..Len(faqItems.value) |->
                                                formatFaqEntry(faqItems.value[i])]))>>)

\* the heading of the citations (written without diacritical marks)
CitationsHeading == <<"#", "#", " ", "Z", "r", "o", "d", "l", "a", " ", "/", " ", "C", "i", "t", "a", "t", "i", "o", "n", "s">>

formatCitations(citations) ==
    IF citations.null \/ Len(citations.value) = 0 THEN CitationsHeading
    ELSE JoinLines(<<CitationsHeading,
                     JoinLines([i \in 1..Len(citations.value) |->
                                   <<"-", " ">> \o normalizeNewlines(TrimWhite(citations.value[i]))])>>)

DatePublishedKey == <<"d", "a", "t", "e", "P", "u", "b", "l", "i", "s", "h", "e", "d">>
DateModifiedKey == <<"d", "a", "t", "e", "M", "o", "d", "i", "f", "i", "e", "d">>

\* the position after the white space that starts at position j of text
RECURSIVE AfterWhite(_, _)
AfterWhite(text, j) ==
    IF j <= Len(text) /\ text[j] \in WhiteSpace THEN AfterWhite(text, j + 1) ELSE j

First(positions) == CHOOSE i \in positions : \A j \in positions : i <= j

\* the position of the first double quote of text at or after position j, 0 if none
QuoteFrom(text, j) ==
    IF \A k \in j..Len(text) : text[k] # "\"" THEN 0
    ELSE First({k \in j..Len(text) : text[k] = "\""})

\* /key:\s+"([^"]*)"/ matches text at position i
DateMatchesAt(text, key, i) ==
    /\ text[i] = key[1]
    /\ i + Len(key) <= Len(text)
    /\ SubSeq(text, i, i + Len(key) - 1) = key
    /\ text[i + Len(key)] = ":"
    /\ AfterWhite(text, i + Len(key) + 1) > i + Len(key) + 1
    /\ AfterWhite(text, i + Len(key) + 1) <= Len(text)
    /\ text[AfterWhite(text, i + Len(key) + 1)] = "\""
    /\ QuoteFrom(text, AfterWhite(text, i + Len(key) + 1) + 1) # 0

\* the group the match at position i captures
DateCapturedAt(text, key, i) ==
    SubSeq(text, AfterWhite(text, i + Len(key) + 1) + 1,
           QuoteFrom(text, AfterWhite(text, i + Len(key) + 1) + 1) - 1)

\* the positions at which /key:\s+"([^"]*)"/ matches text
DateMatches(text, key) == {i \in 1..Len(text) : DateMatchesAt(text, key, i)}

\* text.match(/key:\s+"([^"]*)"/): the group of the first match, or undefined
CapturedFirst(text, key, positions) ==
    IF positions = {} THEN Null ELSE Str(DateCapturedAt(text, key, First(positions)))

DateMatch(text, key) == CapturedFirst(text, key, DateMatches(text, key))

NoPersistedDates == [datePublished |-> Null, dateModified |-> Null]

\* extractPersistedDates
extractPersistedDates(content) ==
    [datePublished |-> DateMatch(normalizeNewlines(content), DatePublishedKey),
     dateModified |-> DateMatch(normalizeNewlines(content), DateModifiedKey)]

\* a ?? b ?? c on string | undefined
FirstGiven(a, b, c) == IF ~a.null THEN a.value ELSE IF ~b.null THEN b.value ELSE c

FRONTMATTER_BASE_URL == <<"h", "t", "t", "p", "s", ":", "/", "/", "w", "i", "e", "d", "z", "a", ".", "j", "o", "g", "a", ".", "y", "o", "g", "a", "/", "a", "r", "t", "y", "k", "u", "l", "y">>
DEFAULT_ROBOTS == <<"i", "n", "d", "e", "x", ",", "f", "o", "l", "l", "o", "w">>

\* payload.seo.canonical ?? `${FRONTMATTER_BASE_URL}/${slug}`
CanonicalFor(seo) ==
    IF ~seo.canonical.null THEN seo.canonical.value ELSE FRONTMATTER_BASE_URL \o <<"/">> \o seo.slug

\* payload.seo.robots?.trim() || DEFAULT_ROBOTS
RobotsFor(seo) ==
    IF ~seo.robots.null /\ Len(TrimWhite(seo.robots.value)) > 0 THEN TrimWhite(seo.robots.value)
    ELSE DEFAULT_ROBOTS

Dashes == <<"-", "-", "-">>

FrontMatter(payload, datePublished, dateModified) ==
    JoinLines(<<Dashes,
                YamlLine(<<"t", "i", "t", "l", "e">>, payload.seo.title),
                YamlLine(<<"d", "e", "s", "c", "r", "i", "p", "t", "i", "o", "n">>, payload.seo.description),
                YamlLine(<<"c", "a", "n", "o", "n", "i", "c", "a", "l">>, CanonicalFor(payload.seo)),
                YamlLine(<<"s", "l", "u", "g">>, payload.seo.slug),
                <<"l", "o", "c", "a", "l", "e", ":", " ", "\"", "p", "l", "-", "P", "L", "\"">>,
                YamlLine(<<"r", "o", "b", "o", "t", "s">>, RobotsFor(payload.seo)),
                YamlLine(<<"s", "e", "c", "t", "i", "o", "n">>, payload.taxonomy.section),
                ArrayLine(<<"c", "a", "t", "e", "g", "o", "r", "i", "e", "s">>, payload.taxonomy.categories),
                ArrayLine(<<"t", "a", "g", "s">>, payload.taxonomy.tags),
                ArrayLine(<<"g", "e", "o", "_", "f", "o", "c", "u", "s">>, payload.aeo.geo_focus),
                YamlLine(DatePublishedKey, datePublished),
                YamlLine(DateModifiedKey, dateModified),
                Dashes,
                <<>>>>)

SectionBlocks(article) ==
    TrimWhiteEnd(JoinLines([i \in 1..Len(article.sections) |-> formatSection(article.sections[i])]))

\* faqBlock || null, faqBlock ? '' : null
FaqParts(faqBlock) == IF Len(faqBlock) > 0 THEN <<faqBlock, <<>>>> ELSE <<>>

MarkdownParts(payload, frontMatter) ==
    <<frontMatter,
      <<"#", " ", "T", "L", ";", "D", "R">>,
      normalizeNewlines(TrimWhite(payload.article.lead)),
      <<>>,
      <<"#", " ">> \o TrimWhite(payload.article.headline),
      SectionBlocks(payload.article),
      <<>>>>
    \o FaqParts(formatFaqBlock(payload.aeo.faq))
    \o <<formatCitations(payload.article.citations), <<>>>>

\* a buildMarkdown that takes a missing date from the generation time only
buildMarkdownAfresh(payload, generatedAt, persistedDates) ==
    ensureTrailingNewline(JoinLines(MarkdownParts(payload,
        FrontMatter(payload,
                    FirstGiven(payload.article.datePublished, Null, generatedAt),
                    FirstGiven(payload.article.dateModified, Null, generatedAt)))))

\* buildMarkdown
buildMarkdown(payload, generatedAt, persistedDates) ==
    ensureTrailingNewline(JoinLines(MarkdownParts(payload,
        FrontMatter(payload,
                    FirstGiven(payload.article.datePublished, persistedDates.datePublished,
                               generatedAt),
                    FirstGiven(payload.article.dateModified, persistedDates.dateModified,
                               generatedAt)))))

----------------------------------------------------------------------------
(* tools/src/types.ts: articlePayloadSchema *)

SlugChars == Digits \cup {LowerCase[i] : i \in 1..Len(LowerCase)} \cup {"-"}

\* /^[a-z0-9-]+$/.test(slug)
IsSlug(slug) == Len(slug) > 0 /\ \A i \in 1..Len(slug) : slug[i] \in SlugChars

\* z.string().min(1) on each element of an optional array
AllFilled(list) == list.null \/ \A i \in 1..Len(list.value) : Len(list.value[i]) > 0

\* articlePayloadSchema.safeParse(data).success for an object of the
\* payload's shape
IsArticlePayload(payload) ==
    /\ Len(payload.seo.title) > 0
    /\ Len(payload.seo.description) > 0
    /\ IsSlug(payload.seo.slug)
    /\ Len(payload.taxonomy.section) > 0
    /\ payload.aeo.faq.null
        \/ \A i \in 1..Len(payload.aeo.faq.value) :
            /\ Len(payload.aeo.faq.value[i].question) > 0
            /\ Len(payload.aeo.faq.value[i].answer) > 0
    /\ Len(payload.article.lead) > 0
    /\ Len(payload.article.headline) > 0
    /\ Len(payload.article.sections) > 0
    /\ \A i \in 1..Len(payload.article.sections) :
        /\ Len(payload.article.sections[i].title) > 0
        /\ Len(payload.article.sections[i].body) > 0
    /\ AllFilled(payload.article.citations)

----------------------------------------------------------------------------
(* State *)

VARIABLES
    siteUrlEnv,        \* process.env.NEXT_PUBLIC_SITE_URL
    nodeEnv,           \* process.env.NODE_ENV
    cachedSiteConfig,  \* site.ts: cachedSiteConfig
    siteCall,          \* the call of a site.ts export being made, and its outcome
    apiBaseUrlEnv,     \* process.env.NEXT_PUBLIC_API_BASE_URL
    fetchCall,         \* the call of apiFetch being made, and its outcome
    mode,              \* ArticleGeneratorForm: mode
    topicForm,         \* ArticleGeneratorForm: topicForm
    youtubeForm,       \* ArticleGeneratorForm: youtubeForm
    status,            \* ArticleGeneratorForm: status
    fieldErrors,       \* ArticleGeneratorForm: fieldErrors
    errorMessage,      \* ArticleGeneratorForm: errorMessage
    errorDetails,      \* ArticleGeneratorForm: errorDetails
    successResult,     \* ArticleGeneratorForm: successResult
    history,           \* ArticleGeneratorForm: history
    routerCalls,       \* the calls made on the router
    calls,             \* the createArticle calls made by handleSubmit, oldest first
    acceptedSubmits,   \* the number of submits that passed validation
    edits,             \* the number of input changes made
    err,               \* handleSubmit: the error its catch block handled in the step just
                       \* taken (out of scope after any other step)
    listCall,          \* the call of a list helper of the API client being made, and
                       \* its outcome
    payloadFiles,      \* tools: the JSON files of the input directory, in readdir order
    files,             \* tools: the files of the output directory, by name
    generator,         \* tools/src/cli.ts: the run of the generator being made
    faults,            \* the number of file-system errors and kills met
    articleCall,       \* the call of articleDocumentSchema.parse being made, and its
                       \* outcome
    backend,           \* the articles the backend holds and the way it answers
                       \* article-list requests
    sitemap,           \* the sitemap request being served: the locals of the handler
                       \* and its outcome
    admin,             \* the state of the admin console page: the search form, the
                       \* results and the selection
    searches           \* the queries of the searches that await their response

siteVars == <<siteUrlEnv, nodeEnv, cachedSiteConfig, siteCall>>

fetchVars == <<apiBaseUrlEnv, fetchCall>>

formVars ==
    <<mode, topicForm, youtubeForm, status, fieldErrors, errorMessage, errorDetails,
      successResult, history, routerCalls, calls, acceptedSubmits, edits, err>>

listVars == <<listCall>>

generatorVars == <<payloadFiles, files, generator, faults>>

articleVars == <<articleCall>>

sitemapVars == <<backend, sitemap>>

consoleVars == <<admin, searches>>

vars ==
    <<siteVars, fetchVars, formVars, listVars, generatorVars, articleVars, sitemapVars,
      consoleVars>>

\* everything but the variables of one part
notSiteVars == <<fetchVars, formVars, listVars, generatorVars, articleVars, sitemapVars, consoleVars>>
notFetchVars == <<siteVars, formVars, listVars, generatorVars, articleVars, sitemapVars, consoleVars>>
notFormVars == <<siteVars, fetchVars, listVars, generatorVars, articleVars, sitemapVars, consoleVars>>
notListVars == <<siteVars, fetchVars, formVars, generatorVars, articleVars, sitemapVars, consoleVars>>
notGeneratorVars == <<siteVars, fetchVars, formVars, listVars, articleVars, sitemapVars, consoleVars>>
notArticleVars == <<siteVars, fetchVars, formVars, listVars, generatorVars, sitemapVars, consoleVars>>
notSitemapVars == <<siteVars, fetchVars, formVars, listVars, generatorVars, articleVars, consoleVars>>
notConsoleVars == <<siteVars, fetchVars, formVars, listVars, generatorVars, articleVars, sitemapVars>>

\* no call is being made
NoCall == [op |-> "none"]

SiteIdle ==
    /\ siteUrlEnv = Undefined
    /\ nodeEnv = "production"
    /\ cachedSiteConfig = NoSiteConfig
    /\ siteCall = NoCall

FetchIdle ==
    /\ apiBaseUrlEnv = Undefined
    /\ fetchCall = NoCall

ListIdle == listCall = NoCall

GeneratorIdle ==
    /\ payloadFiles = <<>>
    /\ files = <<>>
    /\ generator = <<>>
    /\ faults = 0

\* the generator form is not mounted
FormIdle ==
    /\ mode = "unmounted"
    /\ topicForm = <<>>
    /\ youtubeForm = <<>>
    /\ status = "idle"
    /\ fieldErrors = <<>>
    /\ errorMessage = <<>>
    /\ errorDetails = <<>>
    /\ successResult = <<>>
    /\ history = <<>>
    /\ routerCalls = <<>>
    /\ calls = <<>>
    /\ acceptedSubmits = 0
    /\ edits = 0
    /\ err = <<>>

ArticleIdle == articleCall = NoCall

SitemapIdle ==
    /\ backend = <<>>
    /\ sitemap = <<>>

ConsoleIdle ==
    /\ admin = <<>>
    /\ searches = <<>>

----------------------------------------------------------------------------
(* Inputs of the canonical URL helpers *)

\* longest run of digits tried as a page value
MaxPageDigits == 1

\* most pairs of a URLSearchParams argument
MaxSearchPairs == 2

\* the digits page values are written with
PageDigits == {"0", "1", "2"}

DigitStrings == UNION {[1..k -> PageDigits] : k \in 1..MaxPageDigits}

\* values of NEXT_PUBLIC_SITE_URL: with and without a base path, not https, not absolute
SiteUrlValues ==
    {<<"h", "t", "t", "p", "s", ":", "/", "/", "e", "x", "a", "m", "p", "l", "e", ".", "c", "o", "m", "/", "b", "l", "o", "g">>,
     <<"h", "t", "t", "p", "s", ":", "/", "/", "E", "X", "A", "M", "P", "L", "E", ".", "c", "o", "m", "/", "b", "l", "o", "g", "/">>,
     <<"h", "t", "t", "p", ":", "/", "/", "e", "x", "a", "m", "p", "l", "e", ".", "c", "o", "m", "/", "b", "l", "o", "g">>,
     <<"e", "x", "a", "m", "p", "l", "e", ".", "c", "o", "m">>}

UrlSchemes ==
    {<<"h", "t", "t", "p", "s", ":", "/", "/">>,
     <<"h", "t", "t", "p", ":", "/", "/">>,
     <<>>}

UrlHosts ==
    {<<"e", "x", "a", "m", "p", "l", "e", ".", "c", "o", "m">>,
     <<"s", "u", "b", ".", "e", "x", "a", "m", "p", "l", "e", ".", "c", "o", "m">>,
     <<"b", "a", "d", "e", "x", "a", "m", "p", "l", "e", ".", "c", "o", "m">>,
     <<"m", "a", "l", "i", "c", "i", "o", "u", "s", ".", "e", "x", "a", "m", "p", "l", "e">>,
     <<"w", "i", "e", "d", "z", "a", ".", "j", "o", "g", "a", ".", "y", "o", "g", "a">>}

UrlPaths ==
    {<<>>,
     <<"/">>,
     <<"/", "b", "l", "o", "g", "/">>,
     <<"/", "b", "l", "o", "g", "/", "a", "r", "t", "y", "k", "u", "l", "y", "/", "f", "o", "o", "/", "/">>,
     <<"/", "b", "l", "o", "g", "/", ".", ".", "/", "f", "o", "o">>}

\* page values that are not positive integers
PageValues ==
    {<<>>,
     <<"a", "b", "c">>,
     <<"0", "2">>}

PageQueries ==
    {<<"p", "a", "g", "e", "=">> \o v : v \in PageValues \cup DigitStrings}

OtherQueries ==
    {<<>>,
     <<"p", "a", "g", "e">>,
     <<"u", "t", "m", "_", "s", "o", "u", "r", "c", "e", "=", "t", "e", "s", "t">>,
     <<"p", "a", "g", "e", "=", "2", "&", "u", "t", "m", "_", "s", "o", "u", "r", "c", "e", "=", "t", "e", "s", "t">>,
     <<"p", "a", "g", "e", "=", "2", "&", "p", "a", "g", "e", "=", "a", "b", "c">>,
     <<"p", "a", "g", "e", "=", "a", "b", "c", "&", "p", "a", "g", "e", "=", "2">>}

\* the text after "?" of a URL or of a search string
QueryTexts == PageQueries \cup OtherQueries

UrlFragments ==
    {<<>>,
     <<"#">>,
     <<"#", "t", "o", "p">>}

\* the URLs handed to assertValidCanonical
CanonicalInputs ==
    {scheme \o host \o path \o query \o fragment :
        scheme \in UrlSchemes, host \in UrlHosts, path \in UrlPaths,
        query \in {<<>>} \cup {<<"?">> \o q : q \in QueryTexts},
        fragment \in UrlFragments}

\* the pathname argument of buildCanonicalUrl
Pathnames ==
    {<<"/">>,
     <<>>,
     <<"a", "r", "t", "y", "k", "u", "l", "y">>,
     <<"/", "a", "r", "t", "y", "k", "u", "l", "y", "/", "/">>,
     <<"/", "/">>,
     <<"/", ".", ".">>,
     <<"/", "a", "r", "t", "y", "k", "u", "l", "y", "/", ".", ".">>,
     <<"/", "a", "r", "t", "y", "k", "u", "l", "y", "#", "t", "o", "p">>,
     <<"/", "a", "r", "t", "y", "k", "u", "l", "y", "#">>,
     <<"/", "a", "r", "t", "y", "k", "u", "l", "y", "?", "u", "t", "m", "_", "s", "o", "u", "r", "c", "e", "=", "t", "e", "s", "t">>,
     <<"/", "a", "r", "t", "y", "k", "u", "l", "y", "?", "p", "a", "g", "e", "=", "3">>}

\* the slug argument of buildArticleCanonical
Slugs ==
    {<<"f", "o", "o">>,
     <<"/", "f", "o", "o", "/">>,
     <<" ", "f", "o", "o", " ">>,
     <<>>,
     <<".", ".">>,
     <<".", ".", "/", ".", ".">>,
     <<"f", "o", "o", "#", "t", "o", "p">>,
     <<"f", "o", "o", "?", "p", "a", "g", "e", "=", "2">>,
     <<"f", "o", "o", "?", "x", "=", "1">>}

ParamNames ==
    {<<"p", "a", "g", "e">>,
     <<"u", "t", "m", "_", "s", "o", "u", "r", "c", "e">>}

ParamValues == {<<>>, <<"1">>, <<"2">>, <<"a", "b", "c">>}

\* URLSearchParams arguments: up to MaxSearchPairs pairs
SearchParamLists ==
    UNION {[1..k -> ParamNames \X ParamValues] : k \in 0..MaxSearchPairs}

SearchInputs ==
    {NoSearch}
        \cup {SearchString(q) : q \in QueryTexts}
        \cup {SearchString(<<"?">> \o q) : q \in OtherQueries}
        \cup {SearchParams(pairs) : pairs \in SearchParamLists}

----------------------------------------------------------------------------
(* Calls of the exports of site.ts.  siteCall holds the call being made:   *)
(* its arguments, and once it has ended what it returned or threw.         *)

Call(op, arg, search) ==
    [op |-> op, arg |-> arg, search |-> search, done |-> FALSE, result |-> Thrown("none")]

CanonicalCalls ==
    {Call("assertValidCanonical", url, NoSearch) : url \in CanonicalInputs}
        \cup {Call("buildCanonicalUrl", pathname, search) :
                pathname \in Pathnames, search \in SearchInputs}
        \cup {Call("buildArticleCanonical", slug, NoSearch) : slug \in Slugs}
        \cup {Call("getSiteBaseUrl", <<>>, NoSearch)}

\* resolveSiteConfig as the call being made finds the cache and environment
Resolved == resolveSiteConfig(cachedSiteConfig, siteUrlEnv, nodeEnv)

\* The end of a call of an export: resolveSiteConfig ran first and cached
\* what it resolved; when it threw, the call ends with that Error, otherwise
\* with the result computed under the resolved configuration.
Finish(resolved, result) ==
    /\ cachedSiteConfig' = IF resolved.ok THEN resolved.config ELSE cachedSiteConfig
    /\ siteCall' = [siteCall EXCEPT
            !.done = TRUE,
            !.result = IF resolved.ok THEN result ELSE Thrown(resolved.error)]
    /\ UNCHANGED <<siteUrlEnv, nodeEnv, notSiteVars>>

AssertValidCanonical ==
    /\ siteCall.op = "assertValidCanonical" /\ ~siteCall.done
    /\ Finish(Resolved, assertValidCanonical(Resolved.config, siteCall.arg))

BuildCanonicalUrl ==
    /\ siteCall.op = "buildCanonicalUrl" /\ ~siteCall.done
    /\ Finish(Resolved, buildCanonicalUrl(Resolved.config, siteCall.arg, siteCall.search))

BuildArticleCanonical ==
    /\ siteCall.op = "buildArticleCanonical" /\ ~siteCall.done
    /\ Finish(Resolved, buildArticleCanonical(Resolved.config, siteCall.arg))

GetSiteBaseUrl ==
    /\ siteCall.op = "getSiteBaseUrl" /\ ~siteCall.done
    /\ Finish(Resolved, Returned(Resolved.config.baseUrl))

\* The canonical URL helpers applied to every input, under every site URL
InitCanonical ==
    /\ ConsoleIdle
    /\ SitemapIdle
    /\ ArticleIdle
    /\ siteUrlEnv \in {Undefined} \cup {Defined(v) : v \in SiteUrlValues}
    /\ nodeEnv \in {"test", "production"}
    /\ cachedSiteConfig = NoSiteConfig
    /\ siteCall \in CanonicalCalls
    /\ FetchIdle
    /\ FormIdle
    /\ ListIdle
    /\ GeneratorIdle

NextCanonical ==
    \/ AssertValidCanonical
    \/ BuildCanonicalUrl
    \/ BuildArticleCanonical
    \/ GetSiteBaseUrl

SpecCanonical == InitCanonical /\ [][NextCanonical]_vars

----------------------------------------------------------------------------
(* Properties of the canonical URL helpers *)

Contains(s, c) == FirstOf(s, {c}, 1) # 0

\* the call in siteCall has ended and resolveSiteConfig had a configuration
CallEnded(op) ==
    /\ siteCall.op = op
    /\ siteCall.done
    /\ cachedSiteConfig # NoSiteConfig

ArgUrl == ParseURL(siteCall.arg)
ResultUrl == ParseURL(siteCall.result.value).url
ResultParams == ParseSearchParams(ResultUrl.query)

\* C1: assertValidCanonical returns a URL only if its hostname is the
\* configured site hostname; an https URL on any other hostname is rejected
\* with the 'must remain on hostname' error.
C1_OnlyConfiguredHostname ==
    (/\ CallEnded("assertValidCanonical")
     /\ ArgUrl.valid
     /\ ArgUrl.url.protocol = HttpsProtocol
     /\ ArgUrl.url.hostname # cachedSiteConfig.hostname)
        => siteCall.result = Thrown("must remain on hostname")

\* every parameter is called page and every page value is a positive integer
OnlyPositivePages(params) ==
    \A i \in 1..Len(params) :
        /\ params[i][1] = PageKey
        /\ IsPositiveInteger(params[i][2])

\* C2: a URL returned by assertValidCanonical carries no query parameter
\* other than page, and every page parameter it carries is a positive
\* integer; a URL with another parameter or another page value is rejected.
C2_OnlyPositivePageParameter ==
    /\ (CallEnded("assertValidCanonical") /\ siteCall.result.ok)
            => OnlyPositivePages(ResultParams)
    /\ (/\ CallEnded("assertValidCanonical")
        /\ ArgUrl.valid
        /\ ~OnlyPositivePages(ParseSearchParams(ArgUrl.url.query)))
            => ~siteCall.result.ok

\* C3: a URL returned by buildCanonicalUrl or buildArticleCanonical has the
\* scheme https and the configured hostname, starts with the configured base
\* URL and has no fragment.
C3_SelfReferentialHttps ==
    (/\ \/ CallEnded("buildCanonicalUrl")
        \/ CallEnded("buildArticleCanonical")
     /\ siteCall.result.ok)
        => /\ ResultUrl.protocol = HttpsProtocol
           /\ ResultUrl.hostname = cachedSiteConfig.hostname
           /\ StartsWith(siteCall.result.value, cachedSiteConfig.baseUrl)
           /\ Len(Hash(ResultUrl)) = 0

\* the parameters buildCanonicalUrl is given in its search argument
GivenParams ==
    IF siteCall.search.kind = "string" THEN ParseSearchParams(siteCall.search.text)
    ELSE siteCall.search.pairs

----------------------------------------------------------------------------
(* Calls of apiFetch.  fetchCall holds the call being made: its arguments, *)
(* the request handed to fetch, what fetch answered and how the call ended.*)

ApiBaseUrlValues ==
    {<<"h", "t", "t", "p", "s", ":", "/", "/", "a", "p", "i", ".", "e", "x", "a", "m", "p", "l", "e", ".", "c", "o", "m">>,
     <<"h", "t", "t", "p", "s", ":", "/", "/", "a", "p", "i", ".", "e", "x", "a", "m", "p", "l", "e", ".", "c", "o", "m", "/", "v", "1", "/">>,
     <<>>,
     <<"a", "p", "i", ".", "e", "x", "a", "m", "p", "l", "e", ".", "c", "o", "m">>}

NoRequest == [url |-> <<>>, method |-> "none", accept |-> "none", contentType |-> "none"]
NoResponse == [status |-> 0, isJson |-> FALSE, readable |-> FALSE, body |-> JsonUndefined]
NoOutcome == Outcome("none", 0, JsonUndefined)

FetchCall(path, method, searchParams) ==
    [op |-> "apiFetch", path |-> path, method |-> method, searchParams |-> searchParams,
     phase |-> "called", request |-> NoRequest,
     answer |-> "none", response |-> NoResponse, outcome |-> NoOutcome]

\* the calls the client's own functions make: getHealth, getArticles with a
\* page, createArticle
FetchCalls ==
    {FetchCall(<<"/", "h", "e", "a", "l", "t", "h">>, "GET", <<>>),
     FetchCall(<<"/", "a", "r", "t", "i", "c", "l", "e", "s">>, "GET", <<<<PageKey, <<"2">>>>>>),
     FetchCall(<<"/", "a", "r", "t", "i", "c", "l", "e", "s">>, "POST", <<>>)}

\* bodies a backend answers with
JsonBodies ==
    {JsonObject(<<>>),
     JsonObject(<<<<"detail", <<"T", "r", "a", "n", "s", "c", "r", "i", "p", "t", " ", "u", "n", "a", "v", "a", "i", "l", "a", "b", "l", "e">>>>>>)}

TextBodies == {JsonString(<<"B", "a", "d", " ", "G", "a", "t", "e", "w", "a", "y">>)}

\* the status codes fetch resolves with
ResponseStatuses == 200..599

Responses ==
    {Response(status_, TRUE, readable, body) :
        status_ \in ResponseStatuses, readable \in BOOLEAN, body \in JsonBodies}
        \cup {Response(status_, FALSE, readable, body) :
                status_ \in ResponseStatuses, readable \in BOOLEAN, body \in TextBodies}

\* apiFetch up to `await fetch(url, init)`: buildUrl throws, or the request
\* is sent
ApiFetchSendTo(built) ==
    /\ fetchCall' =
        IF built.valid
        THEN [fetchCall EXCEPT !.phase = "awaiting",
                               !.request = Request(built.url, fetchCall.method, FALSE)]
        ELSE [fetchCall EXCEPT !.phase = "settled", !.outcome = TypeError]
    /\ UNCHANGED <<apiBaseUrlEnv, notFetchVars>>

ApiFetchSend ==
    /\ fetchCall.op = "apiFetch" /\ fetchCall.phase = "called"
    /\ ApiFetchSendTo(buildUrl(apiBaseUrlEnv, fetchCall.path, fetchCall.searchParams))

\* fetch resolves with a response: the rest of the try block
FetchResolves ==
    /\ fetchCall.op = "apiFetch" /\ fetchCall.phase = "awaiting"
    /\ \E response \in Responses :
        fetchCall' = [fetchCall EXCEPT !.phase = "settled",
                                       !.answer = "response",
                                       !.response = response,
                                       !.outcome = apiFetchResolved(response)]
    /\ UNCHANGED <<apiBaseUrlEnv, notFetchVars>>

\* fetch rejects (transport failure): the catch block
FetchRejects ==
    /\ fetchCall.op = "apiFetch" /\ fetchCall.phase = "awaiting"
    /\ fetchCall' = [fetchCall EXCEPT !.phase = "settled",
                                      !.answer = "rejection",
                                      !.outcome = apiFetchRejected]
    /\ UNCHANGED <<apiBaseUrlEnv, notFetchVars>>

InitFetch ==
    /\ ConsoleIdle
    /\ SitemapIdle
    /\ ArticleIdle
    /\ SiteIdle
    /\ FormIdle
    /\ ListIdle
    /\ GeneratorIdle
    /\ apiBaseUrlEnv \in {Undefined} \cup {Defined(v) : v \in ApiBaseUrlValues}
    /\ fetchCall \in FetchCalls

NextFetch ==
    \/ ApiFetchSend
    \/ FetchResolves
    \/ FetchRejects

SpecFetch == InitFetch /\ [][NextFetch]_vars

----------------------------------------------------------------------------
(* Properties of apiFetch *)

FetchSettled == fetchCall.op = "apiFetch" /\ fetchCall.phase = "settled"

\* the error class and status the claim gives for the answer of fetch
ClassifiedByStatus ==
    /\ fetchCall.answer = "rejection"
        => fetchCall.outcome.kind = "NetworkError" /\ fetchCall.outcome.status = 0
    /\ fetchCall.answer = "response"
        => LET code == fetchCall.response.status IN
           /\ fetchCall.outcome.status = code
           /\ fetchCall.outcome.kind =
                IF code \in 200..299 THEN "returned"
                ELSE IF code = 404 THEN "NotFoundError"
                ELSE IF code \in {502, 503} THEN "ServiceUnavailableError"
                ELSE "ApiError"

\* C5 as stated: every call of apiFetch ends by returning a 2xx payload or
\* with NotFoundError (404), ServiceUnavailableError (502, 503), ApiError
\* (any other status) or NetworkError (transport failure, status 0), and
\* with no other kind of error.
C5_NoOtherError ==
    FetchSettled
        => /\ ClassifiedByStatus
           /\ fetchCall.outcome.kind \in ApiErrorClasses \cup {"returned"}

\* C5, the part that holds: every call that sends its request ends as the
\* claim says; a call ends with another error only when buildUrl cannot
\* build the URL from NEXT_PUBLIC_API_BASE_URL, and then with new URL's
\* TypeError before any request is sent.
C5_ClassifiedOnceSent ==
    FetchSettled
        => /\ ClassifiedByStatus
           /\ fetchCall.request # NoRequest
                => fetchCall.outcome.kind \in ApiErrorClasses \cup {"returned"}
           /\ fetchCall.request = NoRequest
                => /\ fetchCall.outcome = TypeError
                   /\ fetchCall.answer = "none"
                   /\ ~buildUrl(apiBaseUrlEnv, fetchCall.path, fetchCall.searchParams).valid

\* a 404 answer has ended the call with NotFoundError
C5_Witness ==
    /\ FetchSettled
    /\ fetchCall.answer = "response"
    /\ fetchCall.response.status = 404
    /\ fetchCall.outcome.kind = "NotFoundError"

----------------------------------------------------------------------------
(* src/components/articles/ArticleGeneratorForm.tsx: the mounted form.     *)
(* The clipboard feedback and the raw-result toggle are left out; a        *)
(* history item is its mode, label and slug.                               *)

MaxSubmits == 2
MaxEdits == 1

Modes == {"topic", "youtube"}

\* what the user types or picks
TopicValues == {<<"a", "b", "c">>, <<"A", "s", "a", "n", "y", " ", "j", "o", "g", "i">>}
VideoUrlValues == {<<"h", "t", "t", "p", "s", ":", "/", "/", "y", "o", "u", "t", "u", ".", "b", "e", "/", "x", "y", "z">>}
GuidanceValues == {<<" ", "K", "r", "o", "t", "k", "o", " ">>}
KeywordsValues == {<<"a", ",", " ", "b", ",", ",", "c", ",", "d", ",", "e", ",", "f", ",", "g">>}
RubricValues == {<<"z", "d", "r", "o", "w", "i", "e">>}

\* the inputs the user changes, and to what: topic and guidance in topic
\* mode; the video link, keywords and the rubric in youtube mode
FieldValues ==
    [topic |->
        [topic |-> TopicValues, video_url |-> {}, guidance |-> GuidanceValues,
         keywords |-> {}, rubric_code |-> {}],
     youtube |->
        [topic |-> {}, video_url |-> VideoUrlValues, guidance |-> {},
         keywords |-> KeywordsValues, rubric_code |-> RubricValues]]

\* NEXT_PUBLIC_API_BASE_URL of the deployment: an absolute URL, or a host
\* name without a scheme
FormApiBaseUrlValues ==
    {<<"h", "t", "t", "p", "s", ":", "/", "/", "a", "p", "i", ".", "e", "x", "a", "m", "p", "l", "e", ".", "c", "o", "m">>,
     <<"a", "p", "i", ".", "e", "x", "a", "m", "p", "l", "e", ".", "c", "o", "m">>}

\* searchParams.get('video_url') ?? ''
InitialVideoUrls == {<<>>, <<"h", "t", "t", "p", "s", ":", "/", "/", "w", "w", "w", ".", "y", "o", "u", "t", "u", "b", "e", ".", "c", "o", "m", "/", "w", "a", "t", "c", "h", "?", "v", "=", "a", "b", "c">>}

EmptyForm ==
    [topic |-> <<>>, guidance |-> <<>>, keywords |-> <<>>, rubric_code |-> <<>>,
     video_url |-> <<>>]

NoResult == [slug |-> <<>>, published |-> FALSE]

ArticlesPath == <<"/", "a", "r", "t", "i", "c", "l", "e", "s">>
ArticleHrefPrefix == <<"/", "a", "r", "t", "y", "k", "u", "l", "y", "/">>

\* what the backend answers a create request with
PublishedBody ==
    JsonObject(<<<<"status", Published>>, <<"slug", <<"a", "s", "a", "n", "y", "-", "j", "o", "g", "i">>>>, <<"id", <<"1">>>>>>)

TranscriptBody == JsonObject(<<<<"detail", <<"T", "r", "a", "n", "s", "c", "r", "i", "p", "t", " ", "u", "n", "a", "v", "a", "i", "l", "a", "b", "l", "e">>>>>>)
RejectedBody == JsonObject(<<<<"message", <<"T", "o", "p", "i", "c", " ", "r", "e", "j", "e", "c", "t", "e", "d">>>>>>)
PrivateBody == JsonObject(<<<<"detail", <<"V", "i", "d", "e", "o", " ", "i", "s", " ", "p", "r", "i", "v", "a", "t", "e">>>>>>)
GatewayBody == JsonString(<<"B", "a", "d", " ", "G", "a", "t", "e", "w", "a", "y">>)

\* a published article, a success whose body cannot be read, and a failure
\* of each class the catch block tells apart: another 4xx, 422 with a
\* transcript message, with another message and with none, 500 and 503
ArticleResponses ==
    {Response(200, TRUE, TRUE, PublishedBody),
     Response(200, TRUE, FALSE, PublishedBody),
     Response(400, TRUE, TRUE, RejectedBody),
     Response(422, TRUE, TRUE, TranscriptBody),
     Response(422, TRUE, TRUE, PrivateBody),
     Response(422, TRUE, TRUE, JsonObject(<<>>)),
     Response(500, TRUE, TRUE, JsonObject(<<>>)),
     Response(503, FALSE, TRUE, GatewayBody)}

Mounted == mode \in Modes

CurrentForm == IF mode = "topic" THEN topicForm ELSE youtubeForm

\* the inputs rendered in the current mode
VisibleFields ==
    IF mode = "topic" THEN {"topic", "guidance", "keywords", "rubric_code"}
    ELSE {"video_url", "topic", "guidance", "keywords", "rubric_code"}

\* handleSubmit: topic, normalizedVideoUrl and payload
SubmittedTopic ==
    IF mode = "topic" THEN Trim(topicForm.topic)
    ELSE resolveTopic(mode, youtubeForm.topic, youtubeForm.video_url)

NormalizedVideoUrl == Trim(CurrentForm.video_url)

SubmittedPayload ==
    [topic |-> SubmittedTopic,
     rubric_code |-> OrNull(Trim(CurrentForm.rubric_code)),
     keywords |-> parseKeywords(CurrentForm.keywords),
     guidance |-> OrNull(Trim(CurrentForm.guidance)),
     video_url |-> IF mode = "youtube" THEN OrNull(NormalizedVideoUrl) ELSE Null]

\* a createArticle call: the accepted submit that made it, the values
\* handleSubmit closed over, whether the POST request was sent, and how far
\* the call is
NewCall ==
    [submit |-> acceptedSubmits + 1, mode |-> mode, topic |-> SubmittedTopic,
     videoUrl |-> NormalizedVideoUrl,
     sent |-> FALSE, phase |-> "called", request |-> NoRequest, outcome |-> NoOutcome]

\* apiFetch('/articles', {method: 'POST', ...}) up to `await fetch`
PostArticle(call, built) ==
    IF built.valid
    THEN [call EXCEPT !.sent = TRUE, !.phase = "awaiting",
                      !.request = Request(built.url, "POST", FALSE)]
    ELSE [call EXCEPT !.phase = "threw", !.outcome = TypeError]

\* createArticle(payload) up to its first await
createArticle(call, parsed) ==
    IF ~parsed.success THEN [call EXCEPT !.phase = "threw", !.outcome = ZodError]
    ELSE PostArticle(call, buildUrl(apiBaseUrlEnv, ArticlesPath, <<>>))

\* a call that has settled: what handleSubmit closed over is gone with it
Ended(call, phase) ==
    [call EXCEPT !.phase = phase, !.outcome = NoOutcome,
                 !.mode = "none", !.topic = <<>>, !.videoUrl = <<>>]

HistoryItem(call, slug) ==
    [mode |-> call.mode,
     label |-> IF call.mode = "topic" THEN call.topic
               ELSE IF Len(extractVideoLabel(call.videoUrl)) > 0
               THEN extractVideoLabel(call.videoUrl)
               ELSE call.videoUrl,
     slug |-> slug]

\* onChange of an input
ChangeField ==
    /\ Mounted
    /\ status # "submitting"
    /\ edits < MaxEdits
    /\ \E field \in VisibleFields : \E value \in FieldValues[mode][field] :
        /\ CurrentForm[field] # value
        /\ IF mode = "topic"
           THEN topicForm' = [topicForm EXCEPT ![field] = value] /\ UNCHANGED youtubeForm
           ELSE youtubeForm' = [youtubeForm EXCEPT ![field] = value] /\ UNCHANGED topicForm
    /\ edits' = edits + 1
    /\ err' = NoOutcome
    /\ UNCHANGED <<mode, status, fieldErrors, errorMessage, errorDetails, successResult,
                   history, routerCalls, calls, acceptedSubmits, notFormVars>>

HandleModeChange ==
    /\ Mounted
    /\ \E nextMode \in Modes : mode' = nextMode
    /\ fieldErrors' = NoFieldErrors
    /\ status' = "idle"
    /\ errorMessage' = NoMessage
    /\ errorDetails' = JsonNull
    /\ err' = NoOutcome
    /\ UNCHANGED <<topicForm, youtubeForm, successResult, history, routerCalls, calls,
                   acceptedSubmits, edits, notFormVars>>

\* handleSubmit when validation fails
RejectSubmit(validation) ==
    /\ fieldErrors' = validation.fieldErrors
    /\ status' = "error"
    /\ errorMessage' = FixFieldsMessage
    /\ UNCHANGED <<errorDetails, calls, acceptedSubmits>>

\* handleSubmit in youtube mode without a video link
RejectMissingVideo ==
    /\ fieldErrors' = [fieldErrors EXCEPT !.video_url = PasteVideoMessage]
    /\ status' = "error"
    /\ errorMessage' = NoVideoMessage
    /\ UNCHANGED <<errorDetails, calls, acceptedSubmits>>

\* handleSubmit from setStatus('submitting') to `await createArticle`
AcceptSubmit(validation) ==
    /\ status' = "submitting"
    /\ errorMessage' = NoMessage
    /\ errorDetails' = JsonNull
    /\ fieldErrors' = NoFieldErrors
    /\ acceptedSubmits' = acceptedSubmits + 1
    /\ calls' = Append(calls, createArticle(NewCall, safeParseArticleCreateRequest(validation.data)))

SubmitValidated(validation) ==
    IF ~validation.success THEN RejectSubmit(validation)
    ELSE IF mode = "youtube" /\ Len(NormalizedVideoUrl) = 0 THEN RejectMissingVideo
    ELSE AcceptSubmit(validation)

\* the submit event: the button is disabled while status is 'submitting'
HandleSubmit ==
    /\ Mounted
    /\ status # "submitting"
    /\ acceptedSubmits < MaxSubmits
    /\ SubmitValidated(safeParseArticleCreateRequest(SubmittedPayload))
    /\ err' = NoOutcome
    /\ UNCHANGED <<mode, topicForm, youtubeForm, successResult, history, routerCalls,
                   edits, notFormVars>>

\* handleSubmit after createArticle resolved
CreateArticleSucceeds(i, outcome) ==
    /\ calls' = [calls EXCEPT ![i] = Ended(calls[i], "succeeded")]
    /\ successResult' = [slug |-> PropOf(outcome.body, "slug").value, published |-> TRUE]
    /\ status' = "success"
    /\ history' = Take(<<HistoryItem(calls[i], PropOf(outcome.body, "slug").value)>> \o history,
                       HistoryLength)
    /\ routerCalls' = Append(routerCalls,
                             [method |-> "prefetch",
                              href |-> ArticleHrefPrefix \o PropOf(outcome.body, "slug").value])
    /\ err' = NoOutcome
    /\ UNCHANGED <<mode, topicForm, youtubeForm, fieldErrors, errorMessage, errorDetails,
                   acceptedSubmits, edits, notFormVars>>

\* a catch block that sends the request again
CreateArticleFailsAndRetries(i, outcome) ==
    /\ calls' = Append([calls EXCEPT ![i] = Ended(calls[i], "failed")],
                       [calls[i] EXCEPT !.phase = "awaiting"])
    /\ status' = "error"
    /\ errorMessage' = CatchMessage(outcome)
    /\ err' = outcome
    /\ fieldErrors' = CatchFieldErrors(outcome, fieldErrors)
    /\ errorDetails' = CatchDetails(outcome, errorDetails)
    /\ UNCHANGED <<mode, topicForm, youtubeForm, successResult, history, routerCalls,
                   acceptedSubmits, edits, notFormVars>>

\* a catch block that resets the inputs
CreateArticleFailsClearingInputs(i, outcome) ==
    /\ calls' = [calls EXCEPT ![i] = Ended(calls[i], "failed")]
    /\ status' = "error"
    /\ errorMessage' = CatchMessage(outcome)
    /\ err' = outcome
    /\ fieldErrors' = CatchFieldErrors(outcome, fieldErrors)
    /\ errorDetails' = CatchDetails(outcome, errorDetails)
    /\ topicForm' = EmptyForm
    /\ youtubeForm' = EmptyForm
    /\ UNCHANGED <<mode, successResult, history, routerCalls,
                   acceptedSubmits, edits, notFormVars>>

\* a catch block that leaves the status alone
CreateArticleFailsStillSubmitting(i, outcome) ==
    /\ calls' = [calls EXCEPT ![i] = Ended(calls[i], "failed")]
    /\ errorMessage' = CatchMessage(outcome)
    /\ err' = outcome
    /\ fieldErrors' = CatchFieldErrors(outcome, fieldErrors)
    /\ errorDetails' = CatchDetails(outcome, errorDetails)
    /\ UNCHANGED <<mode, status, topicForm, youtubeForm, successResult, history, routerCalls,
                   acceptedSubmits, edits, notFormVars>>

\* handleSubmit after createArticle rejected: the catch block
CreateArticleFails(i, outcome) ==
    /\ calls' = [calls EXCEPT ![i] = Ended(calls[i], "failed")]
    /\ status' = "error"
    /\ errorMessage' = CatchMessage(outcome)
    /\ err' = outcome
    /\ fieldErrors' = CatchFieldErrors(outcome, fieldErrors)
    /\ errorDetails' = CatchDetails(outcome, errorDetails)
    /\ UNCHANGED <<mode, topicForm, youtubeForm, successResult, history, routerCalls,
                   acceptedSubmits, edits, notFormVars>>

CreateArticleSettles(i, outcome) ==
    IF outcome.kind = "returned" THEN CreateArticleSucceeds(i, outcome)
    ELSE CreateArticleFails(i, outcome)

\* the backend answers a request in flight
ArticleResponseArrives ==
    \E i \in 1..Len(calls) : \E response \in ArticleResponses :
        /\ calls[i].phase = "awaiting"
        /\ CreateArticleSettles(i, ParsedPublishResponse(apiFetchResolved(response)))

\* a request in flight fails in transport
ArticleRequestFails ==
    \E i \in 1..Len(calls) :
        /\ calls[i].phase = "awaiting"
        /\ CreateArticleSettles(i, apiFetchRejected)

\* createArticle threw before sending: the rejection reaches the catch block
CreateArticleThrows ==
    \E i \in 1..Len(calls) :
        /\ calls[i].phase = "threw"
        /\ CreateArticleSettles(i, calls[i].outcome)

\* clearHistory
ClearHistory ==
    /\ Mounted
    /\ Len(history) > 0
    /\ history' = <<>>
    /\ err' = NoOutcome
    /\ UNCHANGED <<mode, topicForm, youtubeForm, status, fieldErrors, errorMessage,
                   errorDetails, successResult, routerCalls, calls, acceptedSubmits, edits,
                   notFormVars>>

InitForm ==
    /\ ConsoleIdle
    /\ SitemapIdle
    /\ ArticleIdle
    /\ SiteIdle
    /\ fetchCall = NoCall
    /\ ListIdle
    /\ GeneratorIdle
    /\ apiBaseUrlEnv \in {Defined(v) : v \in FormApiBaseUrlValues}
    /\ \E initialVideoUrl \in InitialVideoUrls :
        /\ mode = IF Len(initialVideoUrl) > 0 THEN "youtube" ELSE "topic"
        /\ youtubeForm = [EmptyForm EXCEPT !.video_url = initialVideoUrl]
    /\ topicForm = EmptyForm
    /\ status = "idle"
    /\ fieldErrors = NoFieldErrors
    /\ errorMessage = NoMessage
    /\ errorDetails = JsonNull
    /\ successResult = NoResult
    /\ history = <<>>
    /\ routerCalls = <<>>
    /\ calls = <<>>
    /\ acceptedSubmits = 0
    /\ edits = 0
    /\ err = NoOutcome

NextForm ==
    \/ ChangeField
    \/ HandleModeChange
    \/ HandleSubmit
    \/ ArticleResponseArrives
    \/ ArticleRequestFails
    \/ CreateArticleThrows
    \/ ClearHistory

SpecForm == InitForm /\ [][NextForm]_vars

----------------------------------------------------------------------------
(* Properties of the generator form *)

Unsettled(i) == calls[i].phase \in {"awaiting", "threw"}
InFlight(i) == calls[i].phase = "awaiting"
Failed(i) == calls[i].phase = "failed"

\* the createArticle calls made for the k-th accepted submit
CallsOf(k) == {i \in 1..Len(calls) : calls[i].submit = k}

IsPostArticles(request) ==
    /\ request.method = "POST"
    /\ EndsWith(request.url, ArticlesPath)

\* the step in which the catch block of handleSubmit runs for some call
FailureStep == \E i \in 1..Len(calls) : ~Failed(i) /\ calls'[i].phase = "failed"

\* C6 as stated: every accepted submit results in exactly one createArticle
\* call and one POST /articles request, and there is no other call or
\* request (none is repeated after a failure).
C6_OneCallOnePost ==
    Mounted =>
        /\ \A k \in 1..acceptedSubmits :
            /\ Cardinality(CallsOf(k)) = 1
            /\ \A i \in CallsOf(k) : calls[i].sent /\ IsPostArticles(calls[i].request)
        /\ \A i \in 1..Len(calls) : calls[i].submit \in 1..acceptedSubmits

\* C6 amended: every accepted submit results in exactly one createArticle
\* call and at most one POST /articles request: exactly one when the request
\* URL can be built from NEXT_PUBLIC_API_BASE_URL, none otherwise; there is
\* no other call or request (none is repeated after a failure).
C6_OneCallAtMostOnePost ==
    Mounted /\ acceptedSubmits > 0 =>
        LET canBuild == buildUrl(apiBaseUrlEnv, ArticlesPath, <<>>).valid IN
        /\ \A k \in 1..acceptedSubmits :
            /\ Cardinality(CallsOf(k)) = 1
            /\ \A i \in CallsOf(k) :
                /\ calls[i].sent = canBuild
                /\ calls[i].sent => IsPostArticles(calls[i].request)
                /\ ~calls[i].sent => calls[i].request = NoRequest
        /\ \A i \in 1..Len(calls) : calls[i].submit \in 1..acceptedSubmits

\* a request failed, the user submitted again and the second request is the
\* only other one
C6_Witness ==
    /\ Mounted
    /\ acceptedSubmits = 2
    /\ Len(calls) = 2
    /\ Failed(1) /\ calls[1].sent
    /\ InFlight(2)

\* C7: whenever a create request is in flight the submit button is disabled
\* (status is 'submitting'), so at most one request is in flight.
C7_SubmitDisabledWhileInFlight ==
    Mounted =>
        /\ (\E i \in 1..Len(calls) : InFlight(i)) => status = "submitting"
        /\ Cardinality({i \in 1..Len(calls) : InFlight(i)}) <= 1

\* two requests of one form are in flight
C7_Witness ==
    /\ Mounted
    /\ Cardinality({i \in 1..Len(calls) : InFlight(i)}) = 2

\* C8: a submit whose topic is shorter than 5 characters fails validation:
\* it makes no createArticle call, sends no request and shows the
\* 'fix the marked fields' error.
C8_InvalidSubmitSendsNothing ==
    [][(HandleSubmit /\ Len(SubmittedTopic) < TopicMin)
        => /\ calls' = calls
           /\ acceptedSubmits' = acceptedSubmits
           /\ status' = "error"
           /\ errorMessage' = FixFieldsMessage
           /\ fieldErrors'.topic # NoMessage]_vars

\* the topic 'abc' was submitted and rejected
C8_Witness ==
    /\ Mounted
    /\ mode = "topic"
    /\ Len(topicForm.topic) > 0
    /\ Len(SubmittedTopic) < TopicMin
    /\ status = "error"
    /\ errorMessage = FixFieldsMessage
    /\ calls = <<>>

\* C9: the step that handles a failed request (any status, transport
\* failure or thrown error) leaves topic, video_url, keywords, guidance and
\* rubric of both forms unchanged.
C9_FailureKeepsInputs ==
    [][FailureStep => UNCHANGED <<topicForm, youtubeForm>>]_vars

\* a 422 answer about the transcript was handled and the topic typed before the submit is still
\* in the input
C9_Witness ==
    /\ Mounted
    /\ mode = "topic"
    /\ Len(calls) = 1
    /\ Failed(1)
    /\ status = "error"
    /\ errorMessage = TranscriptMessage
    /\ Len(topicForm.topic) >= TopicMin
    /\ topicForm.topic \in TopicValues

\* C10: handling a failed request sets the status to 'error', and the
\* status is 'submitting' only while a createArticle call has not settled.
C10_LoadingStops ==
    /\ [](Mounted /\ status = "submitting" => \E i \in 1..Len(calls) : Unsettled(i))
    /\ [][FailureStep => status' = "error"]_vars

\* the only request failed with a 5xx answer and the submit button is
\* enabled again
C10_Witness ==
    /\ Mounted
    /\ Len(calls) = 1
    /\ Failed(1)
    /\ status = "error"
    /\ errorMessage = UnavailableMessage

\* the catch block of handleSubmit has just handled err
Caught == Mounted /\ err # NoOutcome

\* err instanceof ApiError
CaughtApiError == err.kind \in ApiErrorClasses

\* the message the backend sent with the failure: detail, else message,
\* else the text of the body; null when there is none
CaughtMessage == BodyMessage(err.body)

CaughtUnavailable ==
    \/ err.kind = "ServiceUnavailableError"
    \/ CaughtApiError /\ err.status >= 500

CaughtTranscript ==
    /\ ~CaughtMessage.null
    /\ Includes(Lower(CaughtMessage.value), Transcript)

CaughtOther422 ==
    CaughtApiError /\ ~CaughtUnavailable /\ err.status = 422 /\ ~CaughtTranscript

\* the parts of C11 about everything but a 422 without 'transcript'
ReportsOtherFailures ==
    /\ CaughtUnavailable => errorMessage = UnavailableMessage
    /\ CaughtApiError /\ ~CaughtUnavailable /\ err.status = 422 /\ CaughtTranscript
        => errorMessage = TranscriptMessage
    /\ CaughtApiError /\ ~CaughtUnavailable /\ err.status # 422
        => errorMessage = MessageOr(CaughtMessage, CreateFailedMessage)
    /\ ~CaughtApiError => errorMessage = UnexpectedMessage

\* C11 as stated: after a failed request the form shows the
\* service-unavailable message for a ServiceUnavailableError or an ApiError
\* with status >= 500, the transcript message for a 422 whose message
\* mentions 'transcript', the backend detail for any other 422, which also
\* marks the video_url field, the backend message or the default one for
\* any other ApiError, and the unexpected-error message for anything else.
C11_ReportsByStatus ==
    Caught =>
        /\ ReportsOtherFailures
        /\ CaughtOther422 =>
            /\ ~CaughtMessage.null
            /\ errorMessage = ServerMessage(CaughtMessage.value)
            /\ fieldErrors.video_url = ServerMessage(CaughtMessage.value)

\* C11 amended: as stated, except that a 422 without 'transcript' shows the
\* backend message and marks the video_url field with it only when the
\* backend sent one; when it sent none the form shows the default message.
C11_ReportsByStatusOrDefault ==
    Caught =>
        /\ ReportsOtherFailures
        /\ CaughtOther422 /\ ~CaughtMessage.null =>
            /\ errorMessage = ServerMessage(CaughtMessage.value)
            /\ fieldErrors.video_url = ServerMessage(CaughtMessage.value)
        /\ CaughtOther422 /\ CaughtMessage.null => errorMessage = CreateFailedMessage

\* a 422 answer without any message has just been handled
C11_Witness ==
    /\ Caught
    /\ CaughtOther422
    /\ CaughtMessage.null
    /\ errorMessage = CreateFailedMessage

\* the router was asked to do `method` with the page of the article that
\* was just published
RouterCalled(method) ==
    \E k \in 1..Len(routerCalls) :
        routerCalls[k] = [method |-> method, href |-> ArticleHrefPrefix \o successResult.slug]

\* C12: once createArticle has resolved with a slug, router.push has been
\* called with /artykuly/<slug>.
C12_RedirectsAfterSuccess ==
    Mounted /\ status = "success" => RouterCalled("push")

\* createArticle resolved with a slug and the only call made on the router
\* is a prefetch of the article's page
C12_Witness ==
    /\ Mounted
    /\ status = "success"
    /\ successResult.published
    /\ Len(successResult.slug) > 0
    /\ Len(routerCalls) = 1
    /\ RouterCalled("prefetch")

----------------------------------------------------------------------------
(* The list helpers of the API client: parseArticleListResponse (toPaged)  *)
(* and serializeArticleListQuery, each applied to one input                *)

\* the most items a list payload carries
MaxItems == 2

SlugOf(k) == <<"a", "r", "t", "-">> \o DecimalString(k)

\* the k-th article of a list, as the backend sends it
ValidItem(k) ==
    RecordValue([slug |-> TextValue(SlugOf(k)),
                 title |-> TextValue(<<"T", "y", "t", "u", "l">>),
                 section |-> TextValue(<<" ", "J", "o", "g", "a", " ">>),
                 tags |-> ArrayValue(<<TextValue(<<"a">>), TextValue(<<" ">>)>>),
                 created_at |-> TextValue(<<"2", "0", "2", "4">>),
                 updated_at |-> TextValue(<<"2", "0", "2", "5">>)])

\* an article without a slug
InvalidItem == RecordValue([title |-> TextValue(<<"T", "y", "t", "u", "l">>)])

ValidItemArrays == {ArrayValue([i \in 1..n |-> ValidItem(i)]) : n \in 0..MaxItems}

InvalidItemLists ==
    {ArrayValue(<<InvalidItem>>), ArrayValue(<<ValidItem(1), InvalidItem>>),
     ArrayValue(<<FromInt(1)>>), NullValue, TextValue(<<"x">>), RecordValue(<<>>)}

ItemLists == ValidItemArrays \cup InvalidItemLists

\* the property that carries the items, if any
ItemFields ==
    {<<>>} \cup {[items |-> list] : list \in ItemLists}
           \cup {[results |-> list] : list \in ItemLists}
           \cup {[data |-> list] : list \in ItemLists}

Huge == NumberOf(1, 308)
Tenth == NumberOf(1, 0 - 1)

\* pagination properties at the top level of a payload
PagingFields ==
    {<<>>,
     [total |-> FromInt(5), page |-> FromInt(3)],
     [total |-> TextValue(<<"4", "0">>), page |-> FromInt(2), page_size |-> FromInt(20)],
     [total_items |-> FromInt(7), per_page |-> TextValue(<<"a", "b", "c">>),
      current_page |-> TextValue(<<" ", "2", " ">>)],
     [total_pages |-> FromInt(4), page_size |-> NumberOf(25, 0 - 1)],
     [total |-> Huge, page_size |-> Tenth]}

\* the meta property of a payload
MetaFields ==
    {<<>>,
     [meta |-> NullValue],
     [meta |-> RecordValue([page |-> FromInt(2), per_page |-> FromInt(10),
                            total_items |-> TextValue(<<"1", "e", "3", "0", "8">>)])],
     [meta |-> RecordValue([total |-> TextValue(<<>>), page_size |-> TextValue(<<"0", ".", "1">>)])]}

\* {...f, ...g} for records of different properties
Merged(f, g) ==
    [key \in DOMAIN f \cup DOMAIN g |-> IF key \in DOMAIN f THEN f[key] ELSE g[key]]

RecordPayloads ==
    {RecordValue(Merged(items, Merged(paging, meta))) :
        items \in ItemFields, paging \in PagingFields, meta \in MetaFields}

\* the numbers a legacy meta object carries as numeric strings
LegacyNumbers == {0, 3, 20, 42}

NumericText(n) == TextValue(DecimalString(n))

\* {meta: {page, per_page, total_items, total_pages}, items}
LegacyPayload(page, perPage, totalItems, totalPages, items) ==
    RecordValue([meta |-> RecordValue([page |-> NumericText(page),
                                       per_page |-> NumericText(perPage),
                                       total_items |-> NumericText(totalItems),
                                       total_pages |-> NumericText(totalPages)]),
                 items |-> items])

LegacyPayloads ==
    {LegacyPayload(page, perPage, totalItems, totalPages, items) :
        page \in LegacyNumbers, perPage \in LegacyNumbers, totalItems \in LegacyNumbers,
        totalPages \in LegacyNumbers, items \in ValidItemArrays}

OtherPayloads ==
    ItemLists \cup {NoValue, BooleanValue(TRUE), FromInt(3), NaN, TextValue(<<>>)}

PagedInputs == RecordPayloads \cup LegacyPayloads \cup OtherPayloads

\* numbers given in tenths
Tenths(t) == NumberOf(t, 0 - 1)

PageTenths == {0 - 30, 0, 5, 9, 10, 20, 27}
PerPageTenths == {0 - 50, 0, 5, 10, 100, 499, 500, 509, 1000}

PageInputs ==
    {Tenths(t) : t \in PageTenths}
        \cup {NoValue, NaN, Infinity, NumberOf(1, 21), TextValue(<<"2">>)}

PerPageInputs ==
    {Tenths(t) : t \in PerPageTenths}
        \cup {NoValue, NaN, Infinity, NegativeInfinity, Huge, TextValue(<<"1", "0">>)}

SectionInputs ==
    {NoValue, TextValue(<<>>), TextValue(<<" ", " ">>),
     TextValue(<<" ", " ", "B", "i", "z", "n", "e", "s", " ">>)}

SearchTextInputs == {NoValue, TextValue(<<" ">>), TextValue(<<" ", "j", "o", "g", "a", " ">>)}

QueryInputs ==
    [page : PageInputs, per_page : PerPageInputs, section : SectionInputs, q : SearchTextInputs]

ListCall(op, arg) == [op |-> op, arg |-> arg, done |-> FALSE, result |-> NoValue]

\* parseArticleListResponse(data)
ToPaged ==
    /\ listCall.op = "toPaged"
    /\ ~listCall.done
    /\ listCall' = [listCall EXCEPT !.done = TRUE, !.result = toPaged(listCall.arg)]
    /\ UNCHANGED notListVars

\* serializeArticleListQuery(query)
SerializeArticleListQuery ==
    /\ listCall.op = "serializeArticleListQuery"
    /\ ~listCall.done
    /\ listCall' = [listCall EXCEPT !.done = TRUE,
                                    !.result = serializeArticleListQuery(listCall.arg)]
    /\ UNCHANGED notListVars

InitList ==
    /\ ConsoleIdle
    /\ SitemapIdle
    /\ ArticleIdle
    /\ SiteIdle
    /\ FetchIdle
    /\ FormIdle
    /\ GeneratorIdle
    /\ listCall \in {ListCall("toPaged", data) : data \in PagedInputs}
            \cup {ListCall("serializeArticleListQuery", query) : query \in QueryInputs}

NextList ==
    \/ ToPaged
    \/ SerializeArticleListQuery

SpecList == InitList /\ [][NextList]_vars

----------------------------------------------------------------------------
(* Properties of the list helpers *)

PagedDone == listCall.op = "toPaged" /\ listCall.done

PagedNumbers == {"total", "page", "page_size", "total_pages"}

IsSequence(value) == DOMAIN value = 1..Len(value)

\* C13: for every input toPaged returns an object with an items array and
\* finite numeric total, page, page_size and total_pages.
C13_FixedShape ==
    PagedDone =>
        /\ IsSequence(listCall.result.items)
        /\ \A name \in PagedNumbers : IsFiniteNumber(listCall.result[name])

\* a payload with total 1e308 and page_size 0.1 was parsed into a page
\* count that is not finite
C13_Witness ==
    /\ PagedDone
    /\ Get(listCall.arg, "total") = Huge
    /\ Get(listCall.arg, "page_size") = Tenth
    /\ listCall.result.total_pages = Infinity

\* the items of the payload: the bare array, or the value of items, else of
\* results, else of data
GivenItems(data) ==
    IF data.type = "array" THEN data
    ELSE IF HasOwn(data, "items") THEN Get(data, "items")
    ELSE IF HasOwn(data, "results") THEN Get(data, "results")
    ELSE Get(data, "data")

\* the payload carries an item list that is not a valid array of items (any
\* value under items or results, an array under data)
HasInvalidItems(data) ==
    /\ data.type \in {"array", "object"}
    /\ GivenItems(data).type # "undefined"
    /\ data.type = "object" /\ ~HasOwn(data, "items") /\ ~HasOwn(data, "results")
        => GivenItems(data).type = "array"
    /\ \/ GivenItems(data).type # "array"
       \/ \E i \in 1..Len(GivenItems(data).items) : ~IsArticleSummary(GivenItems(data).items[i])

PagingKeys ==
    {"total", "total_items", "page", "current_page", "page_size", "per_page", "total_pages"}

\* neither the payload nor its meta object has a pagination property
HasNoPaging(data) ==
    \A key \in PagingKeys :
        /\ Get(data, key).type = "undefined"
        /\ Get(Get(data, "meta"), key).type = "undefined"

\* C14 as stated: when the item list of a payload is not a valid array of
\* items, toPaged returns items [], total 0, page 1 and total_pages 0 and
\* logs a warning.
C14_FallsBackToEmpty ==
    PagedDone /\ HasInvalidItems(listCall.arg) =>
        /\ listCall.result.items = <<>>
        /\ listCall.result.total = FromInt(0)
        /\ listCall.result.page = FromInt(1)
        /\ listCall.result.total_pages = FromInt(0)
        /\ listCall.result.warned

\* C14 amended: when the item list of a payload is not a valid array of
\* items, toPaged returns items [] and logs a warning; total, page,
\* page_size and total_pages are 0, 1, 0 and 0 when neither the payload nor
\* its meta object has a pagination property.
C14_EmptyItemsAndWarning ==
    PagedDone /\ HasInvalidItems(listCall.arg) =>
        /\ listCall.result.items = <<>>
        /\ listCall.result.warned
        /\ HasNoPaging(listCall.arg) =>
            /\ listCall.result.total = FromInt(0)
            /\ listCall.result.page = FromInt(1)
            /\ listCall.result.page_size = FromInt(0)
            /\ listCall.result.total_pages = FromInt(0)

\* {items: null} was parsed into the empty values with a warning
C14_Witness ==
    /\ PagedDone
    /\ listCall.arg = RecordValue([items |-> NullValue])
    /\ listCall.result.items = <<>>
    /\ listCall.result.total = FromInt(0)
    /\ listCall.result.warned

\* C15: for a payload {meta: {page, per_page, total_items, total_pages},
\* items} whose meta values are numeric strings, the result's page,
\* page_size, total and total_pages are the numbers the strings denote, and
\* no warning is logged.
C15_LegacyMeta ==
    \A page \in LegacyNumbers, perPage \in LegacyNumbers, totalItems \in LegacyNumbers,
       totalPages \in LegacyNumbers, items \in ValidItemArrays :
        PagedDone /\ listCall.arg = LegacyPayload(page, perPage, totalItems, totalPages, items)
            => /\ listCall.result.page = FromInt(page)
               /\ listCall.result.page_size = FromInt(perPage)
               /\ listCall.result.total = FromInt(totalItems)
               /\ listCall.result.total_pages = FromInt(totalPages)
               /\ Len(listCall.result.items) = Len(items.items)
               /\ ~listCall.result.warned

\* the payload {meta: {page: '3', per_page: '20', total_items: '42',
\* total_pages: '3'}, items: [one article]} was parsed
C15_Witness ==
    /\ PagedDone
    /\ listCall.arg = LegacyPayload(3, 20, 42, 3, ArrayValue(<<ValidItem(1)>>))
    /\ listCall.result.page = FromInt(3)
    /\ listCall.result.page_size = FromInt(20)
    /\ listCall.result.total = FromInt(42)

SerializeDone == listCall.op = "serializeArticleListQuery" /\ listCall.done

Min(a, b) == IF a < b THEN a ELSE b
Max(a, b) == IF a > b THEN a ELSE b

HasKey(key) == key \in DOMAIN listCall.result

IsBlank(value) == value.type # "string" \/ \A i \in 1..Len(value.chars) : value.chars[i] = " "

\* text denotes an integer of at least 1
IsPositiveIntegerText(text) ==
    /\ IsFiniteNumber(ToNumber(text))
    /\ ToNumber(text).e >= 0
    /\ ToNumber(text).m >= 1

\* C16: in every query serializeArticleListQuery produces, per_page is an
\* integer within [1, 50], the floor of a finite input clamped to that
\* range, and page is an integer >= 1, the floor of the input; section and
\* q are trimmed; a parameter that is absent, not finite, below 1 (page) or
\* blank is omitted.
C16_SerializedQuery ==
    SerializeDone =>
        /\ HasKey("per_page") =>
            \E n \in MIN_PER_PAGE..MAX_PER_PAGE : listCall.result.per_page = DecimalString(n)
        /\ \A t \in PerPageTenths :
            listCall.arg.per_page = Tenths(t) =>
                /\ HasKey("per_page")
                /\ listCall.result.per_page = DecimalString(Min(Max(t \div 10, 1), 50))
        /\ HasKey("per_page") <=> IsFiniteNumber(listCall.arg.per_page)
        /\ HasKey("page") => IsPositiveIntegerText(listCall.result.page)
        /\ \A t \in PageTenths :
            listCall.arg.page = Tenths(t) =>
                /\ HasKey("page") <=> t >= 10
                /\ HasKey("page") => listCall.result.page = DecimalString(t \div 10)
        /\ ~IsFiniteNumber(listCall.arg.page) => ~HasKey("page")
        /\ \A key \in {"section", "q"} :
            /\ HasKey(key) <=> ~IsBlank(listCall.arg[key])
            /\ HasKey(key) =>
                /\ listCall.result[key] = Trim(listCall.arg[key].chars)
                /\ Head(listCall.result[key]) # " "
                /\ listCall.result[key][Len(listCall.result[key])] # " "

\* per_page 100 was clamped to 50, page 2.7 floored to 2 and the section
\* '  Biznes ' trimmed
C16_Witness ==
    /\ SerializeDone
    /\ listCall.arg.per_page = Tenths(1000)
    /\ listCall.arg.page = Tenths(27)
    /\ listCall.result.per_page = <<"5", "0">>
    /\ listCall.result.page = <<"2">>
    /\ HasKey("section")
    /\ Len(listCall.result.section) + 3 = Len(listCall.arg.section.chars)

----------------------------------------------------------------------------
(* tools/src/cli.ts, data-loader.ts, file-utils.ts: the markdown generator *)

MaxFiles == 2
MaxRuns == 2
MaxFaults == 1

\* an article payload; the optional fields are Null when missing
ArticlePayload(slug, title, canonical, robots, categories, faq, citations, published, modified) ==
    [seo |-> [title |-> title, description |-> <<"O", "p", "i", "s">>, canonical |-> canonical,
              slug |-> slug, robots |-> robots],
     taxonomy |-> [section |-> <<"j", "o", "g", "a">>, categories |-> categories, tags |-> Null],
     aeo |-> [geo_focus |-> Null, faq |-> faq],
     article |-> [lead |-> <<" ", "L", "e", "a", "d", " ">>, headline |-> <<"H", "e", "a", "d">>,
                  sections |-> <<[title |-> <<"O", "n", "e">>, body |-> <<"x", "\r", "\n", "y">>]>>,
                  citations |-> citations,
                  datePublished |-> published, dateModified |-> modified]]

\* a payload that carries its dates and every optional block
DatedPayload ==
    ArticlePayload(<<"a">>, <<"S", "a", "y", " ", "\"", "o", "m", "\"">>, Str(<<"h", "t", "t", "p", "s", ":", "/", "/", "j", "o", "g", "a", ".", "y", "o", "g", "a", "/", "a">>), Str(<<" ", "n", "o", "i", "n", "d", "e", "x", " ">>),
              Str(<<<<"a", "\"", "b">>>>),
              Str(<<[question |-> <<"W", "h", "y", "?">>, answer |-> <<"S", "o", ".">>]>>),
              Str(<<<<"S", "r", "c">>>>),
              Str(<<"2", "0", "2", "4", "-", "0", "1", "-", "0", "2">>), Str(<<"2", "0", "2", "4", "-", "0", "3", "-", "0", "4">>))

\* a payload without dates
UndatedPayload ==
    ArticlePayload(<<"b">>, <<"O", "d", "d", "e", "c", "h">>, Null, Null, Null, Null, Null, Null, Null)

\* a payload without dates whose title ends with the name of a date field
FieldNamePayload ==
    ArticlePayload(<<"c">>, <<"P", "o", "l", "e", " ", "d", "a", "t", "e", "P", "u", "b", "l", "i", "s", "h", "e", "d", ":", " ">>, Null, Null, Null, Null, Null, Null, Null)

\* an object the schema rejects (seo.title is empty)
UntitledPayload ==
    ArticlePayload(<<"b">>, <<>>, Null, Null, Null, Null, Null, Null, Null)

\* the files data-loader.ts can meet: JSON of an object, the JSON text null,
\* a text JSON.parse rejects, a file readFile cannot read
ObjectFile(payload) == [kind |-> "json", data |-> [type |-> "object", payload |-> payload]]
NullFile == [kind |-> "json", data |-> NullValue]
BrokenFile == [kind |-> "invalid", data |-> NoValue]
UnreadableFile == [kind |-> "unreadable", data |-> NoValue]

PayloadFileSet ==
    {ObjectFile(DatedPayload), ObjectFile(UndatedPayload), ObjectFile(FieldNamePayload),
     ObjectFile(UntitledPayload), NullFile, BrokenFile, UnreadableFile}

RECURSIVE SeqsUpTo(_, _)
SeqsUpTo(S, n) ==
    IF n = 0 THEN {<<>>}
    ELSE SeqsUpTo(S, n - 1) \cup {Append(s, x) : s \in {t \in SeqsUpTo(S, n - 1) : Len(t) = n - 1}, x \in S}

Batches == SeqsUpTo(PayloadFileSet, MaxFiles)

\* resolveMarkdownPath, relative to OUTPUT_DIR
resolveMarkdownPath(slug) == slug \o <<".", "m", "d">>

\* the temporary file of writeFileAtomic, relative to the directory of the
\* target (the process id and the time of its name are left out)
TempName == <<".", "t", "m", "p", ".", "m", "d">>

PayloadSlugs == {<<"a">>, <<"b">>, <<"c">>}

FileNames == {resolveMarkdownPath(slug) : slug \in PayloadSlugs} \cup {TempName}

Absent == [exists |-> FALSE, text |-> <<>>]
FileOf(text) == [exists |-> TRUE, text |-> text]

EmptyDirectory == [name \in FileNames |-> Absent]

\* an output directory that holds an older twin of article b
StaleText == <<"o", "l", "d", "\n", "d", "a", "t", "e", "P", "u", "b", "l", "i", "s", "h", "e", "d", ":", " ", "\"", "2", "0", "2", "0", "-", "0", "5", "-", "0", "6", "\"", "\n">>

InitialDirectories ==
    {EmptyDirectory, [EmptyDirectory EXCEPT ![resolveMarkdownPath(<<"b">>)] = FileOf(StaleText)]}

\* createInitialSummary
createInitialSummary == [processed |-> 0, created |-> 0, updated |-> 0, skipped |-> 0, failed |-> 0]

\* new Date().toISOString() in the n-th run
toISOString(n) == <<"2", "0", "2", "5", "-", "0", "1", "-", "0">> \o DecimalString(n) \o <<"T", "0", "0", ":", "0", "0", ":", "0", "0", ".", "0", "0", "0", "Z">>

NoRun ==
    [pc |-> "idle", run |-> 0, index |-> 0, summary |-> createInitialSummary,
     generationTimestamp |-> 0, existing |-> Null, markdown |-> <<>>, outputPath |-> <<>>,
     outcomes |-> <<>>, exitCode |-> 0, lastExitCode |-> 0 - 1]

\* the exit code of the run that ended (-1: none ended, or it was killed)
EndedWith == IF generator.pc = "done" THEN generator.exitCode ELSE 0 - 1

NewRun ==
    [NoRun EXCEPT !.run = generator.run + 1, !.lastExitCode = EndedWith,
                  !.outcomes = [i \in 1..Len(payloadFiles) |-> "none"]]

CanRun == generator.pc \in {"idle", "done", "killed"} /\ generator.run < MaxRuns

\* Promise.all over readJsonFile rejects
LoadRejects == \E i \in 1..Len(payloadFiles) : payloadFiles[i].kind # "json"

\* run: loadPayloads throws, "Fatal: unable to load payloads"
RunLoadFails ==
    /\ CanRun
    /\ LoadRejects
    /\ generator' = [NewRun EXCEPT !.pc = "done", !.exitCode = 1]
    /\ UNCHANGED <<payloadFiles, files, faults, notGeneratorVars>>

\* run: "No payloads found. Nothing to do."
RunFindsNothing ==
    /\ CanRun
    /\ ~LoadRejects
    /\ Len(payloadFiles) = 0
    /\ generator' = [NewRun EXCEPT !.pc = "done", !.exitCode = 0]
    /\ UNCHANGED <<payloadFiles, files, faults, notGeneratorVars>>

\* run: the payloads are loaded and the loop over them begins
RunLoads ==
    /\ CanRun
    /\ ~LoadRejects
    /\ Len(payloadFiles) > 0
    /\ generator' = [NewRun EXCEPT !.pc = "loop", !.index = 1,
                                   !.generationTimestamp = generator.run + 1]
    /\ UNCHANGED <<payloadFiles, files, faults, notGeneratorVars>>

AtPayload == generator.pc = "loop" /\ generator.index <= Len(payloadFiles)

Raw == payloadFiles[generator.index]

\* articlePayloadSchema.safeParse(raw.data).success
SafeParseSucceeds == Raw.data.type = "object" /\ IsArticlePayload(Raw.data.payload)

Payload == Raw.data.payload

Counted(field) == [generator.summary EXCEPT ![field] = @ + 1]

\* the loop goes on with the next payload
Continued(summary, outcome) ==
    [generator EXCEPT !.pc = "loop", !.index = @ + 1, !.summary = summary,
                      !.outcomes[generator.index] = outcome,
                      !.existing = Null, !.markdown = <<>>, !.outputPath = <<>>]

\* run: safeParse fails on an object, which is logged and skipped
SafeParseFails ==
    /\ AtPayload
    /\ Raw.data.type = "object"
    /\ ~SafeParseSucceeds
    /\ generator' = Continued(Counted("failed"), "failed")
    /\ UNCHANGED <<payloadFiles, files, faults, notGeneratorVars>>

\* run: safeParse fails on null and reading raw.data.seo throws a TypeError
\* outside the try block, "Fatal execution error"
SafeParseFailsOnNull ==
    /\ AtPayload
    /\ Raw.data.type = "null"
    /\ generator' = [generator EXCEPT !.pc = "done", !.exitCode = 1,
                                      !.summary = Counted("failed"),
                                      !.outcomes[generator.index] = "failed"]
    /\ UNCHANGED <<payloadFiles, files, faults, notGeneratorVars>>

\* readFileIfExists
readFileIfExists(filePath) ==
    IF files[filePath].exists THEN Str(files[filePath].text) ELSE Null

OutputPath == resolveMarkdownPath(Payload.seo.slug)

Existing == readFileIfExists(OutputPath)

\* existing ? extractPersistedDates(existing) : undefined
PersistedDates ==
    IF ~Existing.null /\ Len(Existing.value) > 0 THEN extractPersistedDates(Existing.value)
    ELSE NoPersistedDates

Markdown == buildMarkdown(Payload, toISOString(generator.generationTimestamp), PersistedDates)

\* a processPayload that rewrites every file
IsRewritten(existing, markdown) == FALSE

\* existing && existing === markdown
IsUpToDate(existing, markdown) ==
    ~existing.null /\ Len(existing.value) > 0 /\ existing.value = markdown

\* processPayload up to the comparison with the existing file
Compared(existing, markdown) ==
    IF IsUpToDate(existing, markdown)
    THEN Continued([Counted("skipped") EXCEPT !.processed = @ + 1], "skipped")
    ELSE [generator EXCEPT !.pc = "write", !.existing = existing, !.markdown = markdown,
                           !.outputPath = OutputPath]

ReadExisting ==
    /\ AtPayload
    /\ SafeParseSucceeds
    /\ generator' = Compared(Existing, Markdown)
    /\ UNCHANGED <<payloadFiles, files, faults, notGeneratorVars>>

\* a file-system call rejects and the catch block of run counts the payload
Rejected ==
    /\ faults < MaxFaults
    /\ faults' = faults + 1
    /\ generator' = Continued(Counted("failed"), "failed")

\* processPayload: readFile rejects with an error other than ENOENT
ReadFails ==
    /\ AtPayload
    /\ SafeParseSucceeds
    /\ Rejected
    /\ UNCHANGED <<payloadFiles, files, notGeneratorVars>>

\* a writeFileAtomic that writes the target in place
tempFileInPlace(filePath) == filePath

\* writeFileAtomic: tempFile
tempFile(filePath) == TempName

\* the part of a text that a write in progress has stored
PartOf(text) == SubSeq(text, 1, Len(text) \div 2)

\* writeFileAtomic: writeFile has opened the temporary file and stored a
\* part of the content
WriteBegins ==
    /\ generator.pc = "write"
    /\ files' = [files EXCEPT ![tempFile(generator.outputPath)] = FileOf(PartOf(generator.markdown))]
    /\ generator' = [generator EXCEPT !.pc = "writing"]
    /\ UNCHANGED <<payloadFiles, faults, notGeneratorVars>>

\* writeFileAtomic: writeFile is done
WriteEnds ==
    /\ generator.pc = "writing"
    /\ files' = [files EXCEPT ![tempFile(generator.outputPath)] = FileOf(generator.markdown)]
    /\ generator' = [generator EXCEPT !.pc = "rename"]
    /\ UNCHANGED <<payloadFiles, faults, notGeneratorVars>>

\* writeFileAtomic: writeFile rejects, the part stored stays
WriteFails ==
    /\ generator.pc = "writing"
    /\ Rejected
    /\ UNCHANGED <<payloadFiles, files, notGeneratorVars>>

\* fs.promises.rename
Renamed(oldPath, newPath) ==
    IF oldPath = newPath THEN files
    ELSE [files EXCEPT ![newPath] = files[oldPath], ![oldPath] = Absent]

\* writeFileAtomic: rename, and the rest of processPayload
Rename ==
    /\ generator.pc = "rename"
    /\ files' = Renamed(tempFile(generator.outputPath), generator.outputPath)
    /\ generator' =
        IF generator.existing.null
        THEN Continued([Counted("created") EXCEPT !.processed = @ + 1], "created")
        ELSE Continued([Counted("updated") EXCEPT !.processed = @ + 1], "updated")
    /\ UNCHANGED <<payloadFiles, faults, notGeneratorVars>>

\* writeFileAtomic: rename rejects
RenameFails ==
    /\ generator.pc = "rename"
    /\ Rejected
    /\ UNCHANGED <<payloadFiles, files, notGeneratorVars>>

\* run: the summary after the loop
Summarize ==
    /\ generator.pc = "loop"
    /\ generator.index > Len(payloadFiles)
    /\ generator' = [generator EXCEPT !.pc = "done",
                                      !.exitCode = IF generator.summary.failed > 0 THEN 1 ELSE 0]
    /\ UNCHANGED <<payloadFiles, files, faults, notGeneratorVars>>

\* the process is killed between two steps
Interrupt ==
    /\ generator.pc \in {"loop", "write", "writing", "rename"}
    /\ faults < MaxFaults
    /\ faults' = faults + 1
    /\ generator' = [generator EXCEPT !.pc = "killed"]
    /\ UNCHANGED <<payloadFiles, files, notGeneratorVars>>

InitGenerator ==
    /\ ConsoleIdle
    /\ SitemapIdle
    /\ ArticleIdle
    /\ SiteIdle
    /\ FetchIdle
    /\ FormIdle
    /\ ListIdle
    /\ payloadFiles \in Batches
    /\ files \in InitialDirectories
    /\ generator = NoRun
    /\ faults = 0

NextGenerator ==
    \/ RunLoadFails
    \/ RunFindsNothing
    \/ RunLoads
    \/ SafeParseFails
    \/ SafeParseFailsOnNull
    \/ ReadExisting
    \/ ReadFails
    \/ WriteBegins
    \/ WriteEnds
    \/ WriteFails
    \/ Rename
    \/ RenameFails
    \/ Summarize
    \/ Interrupt

SpecGenerator == InitGenerator /\ [][NextGenerator]_vars

----------------------------------------------------------------------------
(* Properties of the markdown generator *)

Processed == {"created", "updated", "skipped"}

\* the file at position i of the batch holds an object the schema accepts
IsSound(i) ==
    /\ payloadFiles[i].kind = "json"
    /\ payloadFiles[i].data.type = "object"
    /\ IsArticlePayload(payloadFiles[i].data.payload)

HasTwin(i) == files[resolveMarkdownPath(payloadFiles[i].data.payload.seo.slug)].exists

\* C17: when a run has ended, every payload of the batch that did not fail
\* itself has been processed and its markdown file is there, whatever became
\* of the other files of the batch.
C17_OthersProcessed ==
    generator.pc = "done" =>
        \A i \in 1..Len(payloadFiles) :
            IsSound(i) /\ generator.outcomes[i] # "failed" =>
                generator.outcomes[i] \in Processed /\ HasTwin(i)

\* a run that ended on a file that is no JSON and left a sound payload alone
C17_Witness ==
    /\ generator.pc = "done"
    /\ \E i \in 1..Len(payloadFiles) : payloadFiles[i].kind # "json"
    /\ \E i \in 1..Len(payloadFiles) : IsSound(i) /\ generator.outcomes[i] = "none" /\ ~HasTwin(i)

\* the step is one of processPayload that neither failed nor was killed
ProcessPayloadSteps == faults' = faults /\ generator'.pc # "killed"

\* C18: for a payload whose generated markdown equals the content of the
\* existing file, processPayload changes no file and counts the payload as
\* skipped and processed; and no step changes a file for a payload whose
\* markdown equals what its file held.
C18_RewritesOnlyChanges ==
    [][/\ AtPayload /\ SafeParseSucceeds /\ ProcessPayloadSteps
            /\ files[OutputPath].exists /\ files[OutputPath].text = Markdown
          => /\ files' = files
             /\ generator'.pc = "loop"
             /\ generator'.index = generator.index + 1
             /\ generator'.outcomes[generator.index] = "skipped"
             /\ generator'.summary =
                    [generator.summary EXCEPT !.skipped = @ + 1, !.processed = @ + 1]
       /\ files' # files => generator.existing # Str(generator.markdown)]_vars

\* a second run has skipped a payload whose file the first run wrote
C18_Witness ==
    /\ generator.run = 2
    /\ generator.summary.skipped > 0
    /\ \E i \in 1..Len(payloadFiles) : generator.outcomes[i] = "skipped" /\ HasTwin(i)

OutputNames == {resolveMarkdownPath(slug) : slug \in PayloadSlugs}

\* the markdown processPayload built from the payload and the file it read
Built ==
    buildMarkdown(Payload, toISOString(generator.generationTimestamp),
                  IF ~generator.existing.null /\ Len(generator.existing.value) > 0
                  THEN extractPersistedDates(generator.existing.value)
                  ELSE NoPersistedDates)

\* C19: whatever step is taken, a failing or a last one included, an output
\* file either keeps its content or, if it is the file of the payload being
\* processed, holds the whole markdown built for the payload.
C19_AtomicOutput ==
    [][\A name \in OutputNames :
          files'[name] # files[name] =>
              /\ name = generator.outputPath
              /\ generator.markdown = Built
              /\ files'[name] = FileOf(Built)]_vars

\* the run was killed while it wrote the new content of an existing file,
\* which still holds what it held
C19_Witness ==
    /\ generator.pc = "killed"
    /\ ~generator.existing.null
    /\ files[TempName].exists
    /\ files[TempName].text # generator.markdown
    /\ files[generator.outputPath] = FileOf(generator.existing.value)
    /\ generator.existing.value # generator.markdown

Writing == generator.pc \in {"write", "writing", "rename"}

\* C20: a run that follows a run that ended with exit code 0 on the same
\* payloads builds for every payload the markdown its file holds, and so
\* writes no file.
C20_RepeatableRuns == generator.lastExitCode = 0 => ~Writing

\* a second run after a faultless first has skipped a payload without dates
C20_Witness ==
    /\ generator.lastExitCode = 0
    /\ \E i \in 1..Len(payloadFiles) :
        /\ generator.outcomes[i] = "skipped"
        /\ payloadFiles[i].data.payload.article.datePublished.null

----------------------------------------------------------------------------
(* lib/api/types.ts: faqItemSchema, faqListSchema and articleDocumentSchema *)

MaxEntries == 2

\* an entry of a FAQ list as the backend sends it; a key that is missing is Null
FaqEntry(question, q, answer, a, answer_html) ==
    [question |-> question, q |-> q, answer |-> answer, a |-> a, answer_html |-> answer_html]

\* a ?? b ?? ''
EitherOrEmpty(a, b) == FirstGiven(a, b, <<>>)

\* faqItemSchema: the transform
faqItem(value) ==
    [question |-> TrimWhite(EitherOrEmpty(value.question, value.q)),
     answer |-> TrimWhite(FirstGiven(value.answer, value.a,
                                     EitherOrEmpty(value.answer_html, Null)))]

\* faqItemSchema: the refinement, whose failure is an issue of the parse
IsFaqItem(value) == Len(faqItem(value).question) > 0 /\ Len(faqItem(value).answer) > 0

\* a value given for a FAQ list: nothing, an array of entries, or an object
\* whose values (in the order of Object.values) are entries
NoFaq == [type |-> "undefined", entries |-> <<>>]
FaqArray(entries) == [type |-> "array", entries |-> entries]
FaqRecord(entries) == [type |-> "object", entries |-> entries]

\* z.union([z.array(faqItemSchema), z.record(faqItemSchema)]) accepts the value
IsFaqList(value) == \A i \in 1..Len(value.entries) : IsFaqItem(value.entries[i])

\* items.filter((item) => item.question && item.answer)
RECURSIVE FilteredFaq(_)
FilteredFaq(items) ==
    IF Len(items) = 0 THEN <<>>
    ELSE IF Len(items[1].question) > 0 /\ Len(items[1].answer) > 0
    THEN <<items[1]>> \o FilteredFaq(Tail(items))
    ELSE FilteredFaq(Tail(items))

\* faqListSchema: the value parsed from a value the union accepts ([] by
\* default)
faqList(value) == FilteredFaq([i \in 1..Len(value.entries) |-> faqItem(value.entries[i])])

\* the aeo of a document: missing, or an object with the faq given
NoAeo == [type |-> "undefined", faq |-> NoFaq]
AeoOf(faq) == [type |-> "object", faq |-> faq]

\* a document whose other fields are those of a valid article
DocumentOf(faq, aeo) == [faq |-> faq, aeo |-> aeo]

\* articleDocumentSchema reports no issue
IsArticleDocument(data) == IsFaqList(data.faq) /\ IsFaqList(data.aeo.faq)

\* value.faq && value.faq.length > 0 ? value.faq : value.aeo.faq
normalizedFaq(data) ==
    IF data.faq.type # "undefined" /\ Len(faqList(data.faq)) > 0 THEN faqList(data.faq)
    ELSE faqList(data.aeo.faq)

DocumentError == [ok |-> FALSE, faq |-> <<>>]

\* articleDocumentSchema.parse(data): parsed.aeo.faq, or the DocumentError thrown
articleDocument(data) ==
    IF IsArticleDocument(data) THEN [ok |-> TRUE, faq |-> normalizedFaq(data)] ELSE DocumentError

Given(text) == Str(text)

FullEntry == FaqEntry(Given(<<" ", "C", "o", "?", " ">>), Null, Given(<<" ", "T", "a", "k", ".", " ">>), Null, Null)
ShortEntry == FaqEntry(Null, Given(<<"J", "a", "k", "?", " ">>), Null, Given(<<" ", "T", "a", "k">>), Null)
HtmlEntry == FaqEntry(Null, Given(<<"K", "t", "o", "?">>), Null, Null, Given(<<"<", "p", ">", "J", "a", "<", "/", "p", ">", " ">>))
DoubleEntry == FaqEntry(Given(<<"I", "l", "e", "?">>), Given(<<"x">>), Given(<<"D", "w", "a">>), Given(<<"y">>), Given(<<"z">>))
UnansweredEntry == FaqEntry(Null, Given(<<"B", "r", "a", "k", " ", "o", "d", "p", "o", "w", "i", "e", "d", "z", "i">>), Null, Null, Null)
UnaskedEntry == FaqEntry(Given(<<" ">>), Given(<<"P", "o", " ", "c", "o", "?">>), Given(<<"B", "o", " ", "t", "a", "k">>), Null, Null)

FaqEntries == {FullEntry, ShortEntry, HtmlEntry, DoubleEntry, UnansweredEntry, UnaskedEntry}

FaqValues ==
    {NoFaq} \cup {FaqArray(entries) : entries \in SeqsUpTo(FaqEntries, MaxEntries)}
            \cup {FaqRecord(entries) : entries \in SeqsUpTo(FaqEntries, MaxEntries)}

OtherFaqValues ==
    {NoFaq, FaqArray(<<>>), FaqArray(<<HtmlEntry>>), FaqArray(<<DoubleEntry, UnansweredEntry>>)}

DocumentInputs ==
    {DocumentOf(faq, NoAeo) : faq \in FaqValues}
        \cup {DocumentOf(faq, AeoOf(other)) : faq \in FaqValues, other \in OtherFaqValues}
        \cup {DocumentOf(other, AeoOf(faq)) : faq \in FaqValues, other \in OtherFaqValues}

ArticleCall(data) == [op |-> "parse", arg |-> data, done |-> FALSE, result |-> DocumentError]

\* articleDocumentSchema.parse(data)
ParseArticleDocument ==
    /\ articleCall.op = "parse"
    /\ ~articleCall.done
    /\ articleCall' = [articleCall EXCEPT !.done = TRUE, !.result = articleDocument(articleCall.arg)]
    /\ UNCHANGED notArticleVars

InitArticle ==
    /\ ConsoleIdle
    /\ SitemapIdle
    /\ SiteIdle
    /\ FetchIdle
    /\ FormIdle
    /\ ListIdle
    /\ GeneratorIdle
    /\ articleCall \in {ArticleCall(data) : data \in DocumentInputs}

NextArticle == ParseArticleDocument

SpecArticle == InitArticle /\ [][NextArticle]_vars

----------------------------------------------------------------------------
(* Properties of the article document *)

ArticleDone == articleCall.op = "parse" /\ articleCall.done

\* the question and the answer an entry gives, trimmed
AskedBy(entry) == TrimWhite(IF ~entry.question.null THEN entry.question.value
                            ELSE IF ~entry.q.null THEN entry.q.value ELSE <<>>)
AnsweredBy(entry) == TrimWhite(IF ~entry.answer.null THEN entry.answer.value
                               ELSE IF ~entry.a.null THEN entry.a.value
                               ELSE IF ~entry.answer_html.null THEN entry.answer_html.value
                               ELSE <<>>)

IsWhole(entry) == Len(AskedBy(entry)) > 0 /\ Len(AnsweredBy(entry)) > 0

\* the entries of a list that have a question and an answer, in order
RECURSIVE WholeOf(_)
WholeOf(entries) ==
    IF Len(entries) = 0 THEN <<>>
    ELSE IF IsWhole(entries[1])
    THEN <<[question |-> AskedBy(entries[1]), answer |-> AnsweredBy(entries[1])]>>
             \o WholeOf(Tail(entries))
    ELSE WholeOf(Tail(entries))

\* the list that takes precedence: the root-level one unless nothing is left of it
ExpectedFaq(data) ==
    IF Len(WholeOf(data.faq.entries)) > 0 THEN WholeOf(data.faq.entries)
    ELSE WholeOf(data.aeo.faq.entries)

HasBrokenEntry(data) ==
    \/ \E i \in 1..Len(data.faq.entries) : ~IsWhole(data.faq.entries[i])
    \/ \E i \in 1..Len(data.aeo.faq.entries) : ~IsWhole(data.aeo.faq.entries[i])

\* C21: every document parses, and the FAQ of the result is the root-level
\* list if anything is left of it and the list of aeo otherwise, with the
\* question taken from question or q and the answer from answer or a, both
\* trimmed, and with the entries that lack a question or an answer dropped
\* and the others kept in order.
C21_FaqNormalized ==
    ArticleDone =>
        /\ articleCall.result.ok
        /\ articleCall.result.faq = ExpectedFaq(articleCall.arg)

\* a document with an entry that lacks its answer, next to a whole entry, has
\* been parsed and the parse has thrown
C21_Witness ==
    /\ ArticleDone
    /\ articleCall.arg.faq = NoFaq
    /\ articleCall.arg.aeo = AeoOf(FaqArray(<<FullEntry, UnansweredEntry>>))
    /\ ~articleCall.result.ok

\* the documents whose entries all have a question and an answer parse as
\* C21 says
WholeEntriesNormalized ==
    ArticleDone /\ ~HasBrokenEntry(articleCall.arg) =>
        /\ articleCall.result.ok
        /\ articleCall.result.faq = ExpectedFaq(articleCall.arg)

----------------------------------------------------------------------------
(* app/sitemap.xml/route.ts and app/sitemap.ts: the sitemap handlers *)

MaxArticles == 120
MaxRequests == 401

\* the literal of `safety < 400`
SafetyLimit == 400

\* the handlers of the sitemap, named by the place of their function
GuardedHandlers == {"part_018:23", "part_018:181"}
Handlers == GuardedHandlers \cup {"route.ts:17", "route.ts:166", "sitemap.ts:18"}

\* const PER_PAGE of the handler (per_page = 50 in fetchPage of sitemap.ts)
PER_PAGE(handler) == IF handler = "part_018:23" THEN 83 ELSE 50

\* the entries every handler puts before those of the articles
StaticEntries == 2

\* Articles are numbered from 1 in the order the backend lists them. A run
\* stands for the items of count consecutive articles beginning at first.
Run(first, count) == [first |-> first, count |-> count]

\* the backends: "paged" answers page p of n per page with the articles of
\* that page, total and per_page; "bare" leaves total and per_page out;
\* "wide" is paged but puts WidePage articles on a page whatever is asked;
\* "repeating" answers every page with the first page; "overstated" does so
\* with pages of WidePage articles and a total of OverstatedTotal; "empty"
\* answers with no items; "failing" answers with status 500
BackendKinds == {"paged", "bare", "wide", "repeating", "overstated", "empty", "failing"}

WidePage == 100
OverstatedTotal == 1000000

ArticleCounts == {0, 1, 50, 51, 100, MaxArticles}

Backends == {[kind |-> kind, articles |-> n] : kind \in BackendKinds, n \in ArticleCounts}

PageLength(perPage) == IF backend.kind \in {"wide", "overstated"} THEN WidePage ELSE perPage

PageStart(page, perPage) ==
    IF backend.kind \in {"repeating", "overstated"} THEN 1
    ELSE (page - 1) * PageLength(perPage) + 1

PageCount(page, perPage) ==
    IF backend.kind = "empty" THEN 0
    ELSE Max(0, Min(PageLength(perPage), backend.articles - PageStart(page, perPage) + 1))

HasMeta == backend.kind \in {"paged", "wide", "repeating", "overstated"}

\* the answer of the backend to GET /articles?page=..&per_page=..: the
\* status is 200 or 500, a field that is left out is Null
PageResponse(page, perPage) ==
    [ok |-> backend.kind # "failing",
     items |-> Run(PageStart(page, perPage), PageCount(page, perPage)),
     total |-> IF ~HasMeta THEN Null
               ELSE IF backend.kind = "overstated" THEN Str(OverstatedTotal)
               ELSE Str(backend.articles),
     per_page |-> IF HasMeta THEN Str(PageLength(perPage)) ELSE Null]

\* the sum of the counts of runs[lo..hi]
RECURSIVE CountOf(_, _, _)
CountOf(runs, lo, hi) ==
    IF lo > hi THEN 0
    ELSE IF lo = hi THEN runs[lo].count
    ELSE CountOf(runs, lo, (lo + hi) \div 2) + CountOf(runs, (lo + hi) \div 2 + 1, hi)

\* all.length
Length(all) == CountOf(all, 1, Len(all))

\* all.push(...items)
Pushed(all, items) == IF items.count = 0 THEN all ELSE Append(all, items)

\* the per_page that getArticles sends: serializeArticleListQuery bounds it
SentPerPage(handler) ==
    DigitsValue(serializeArticleListQuery([page |-> FromInt(1),
                                           per_page |-> FromInt(PER_PAGE(handler)),
                                           section |-> NoValue, q |-> NoValue]).per_page)

\* what parseArticleListResponse makes of a response: a Paged, which has
\* the items and a total (the number of items when the response has none)
\* and no per_page
PagedOf(response) ==
    [items |-> response.items,
     total |-> IF response.total.null THEN response.items.count ELSE response.total.value,
     per_page |-> Null]

NoTotal == Null

NewSitemap(handler) ==
    [handler |-> handler, pc |-> "loop", safety |-> 0, page |-> 1,
     pageSize |-> PER_PAGE(handler), total |-> NoTotal, all |-> <<>>, requests |-> 0,
     outcome |-> "none"]

\* the loop is left and the sitemap of the entries collected is returned
SitemapReturned(s) == [s EXCEPT !.pc = "done", !.outcome = "sitemap"]

\* the catch block returns the fallback sitemap
Fallback(s) == [s EXCEPT !.pc = "done", !.outcome = "fallback", !.all = <<>>]

\* the handler rejects
SitemapThrown(s) == [s EXCEPT !.pc = "done", !.outcome = "error", !.all = <<>>]

Requested(s) == [s EXCEPT !.requests = @ + 1]

\* page += 1 and safety++, and the test of the for loop
NextPage(s) ==
    IF s.safety + 1 < SafetyLimit
    THEN [s EXCEPT !.page = @ + 1, !.safety = @ + 1]
    ELSE SitemapReturned([s EXCEPT !.page = @ + 1, !.safety = @ + 1])

\* part_018: pageSize and total after a response
Measured(s, data) ==
    [s EXCEPT !.pageSize = IF ~data.per_page.null /\ data.per_page.value > 0
                           THEN data.per_page.value ELSE @,
              !.total = IF data.total >= 0 THEN Str(data.total) ELSE @]

\* part_018: the rest of the body of the loop, from `const items`
Collected(s, items) ==
    IF items.count = 0 THEN SitemapReturned(s)
    ELSE IF items.count < s.pageSize THEN SitemapReturned([s EXCEPT !.all = Pushed(@, items)])
    ELSE IF ~s.total.null /\ Length(Pushed(s.all, items)) >= s.total.value
    THEN SitemapReturned([s EXCEPT !.all = Pushed(@, items)])
    ELSE NextPage([s EXCEPT !.all = Pushed(@, items)])

GuardedPass(s, response) ==
    IF ~response.ok THEN Fallback(s)
    ELSE Collected(Measured(s, PagedOf(response)), PagedOf(response).items)

\* part_018, GET: one pass of the loop of either handler
GetGuarded ==
    /\ sitemap.handler \in GuardedHandlers
    /\ sitemap.pc = "loop"
    /\ sitemap' = GuardedPass(Requested(sitemap),
                              PageResponse(sitemap.page, SentPerPage(sitemap.handler)))
    /\ UNCHANGED <<backend, notSitemapVars>>

\* route.ts:17: data.items.length < data.per_page, where data.per_page is
\* undefined, is false
BoundedPass(s, response) ==
    IF ~response.ok THEN Fallback(s)
    ELSE IF ~PagedOf(response).per_page.null
            /\ response.items.count < PagedOf(response).per_page.value
    THEN SitemapReturned([s EXCEPT !.all = Pushed(@, response.items)])
    ELSE NextPage([s EXCEPT !.all = Pushed(@, response.items)])

\* route.ts, the first GET: one pass of its loop
GetBounded ==
    /\ sitemap.handler = "route.ts:17"
    /\ sitemap.pc = "loop"
    /\ sitemap' = BoundedPass(Requested(sitemap),
                              PageResponse(sitemap.page, SentPerPage(sitemap.handler)))
    /\ UNCHANGED <<backend, notSitemapVars>>

FetchingPass(s, response) ==
    IF ~response.ok THEN SitemapReturned(s)
    ELSE IF response.items.count < PER_PAGE(s.handler)
    THEN SitemapReturned([s EXCEPT !.all = Pushed(@, response.items)])
    ELSE [s EXCEPT !.all = Pushed(@, response.items), !.page = @ + 1]

\* route.ts, the second GET: one pass of its while (true) loop
GetFetching ==
    /\ sitemap.handler = "route.ts:166"
    /\ sitemap.pc = "loop"
    /\ sitemap.requests < MaxRequests
    /\ sitemap' = FetchingPass(Requested(sitemap), PageResponse(sitemap.page, PER_PAGE(sitemap.handler)))
    /\ UNCHANGED <<backend, notSitemapVars>>

EntriesPass(s, response) ==
    IF ~response.ok THEN SitemapThrown(s)
    ELSE IF ~response.per_page.null /\ response.items.count < response.per_page.value
    THEN SitemapReturned([s EXCEPT !.all = Pushed(@, response.items)])
    ELSE [s EXCEPT !.all = Pushed(@, response.items), !.page = @ + 1]

\* sitemap.ts, sitemap: one pass of its while (true) loop
GetEntries ==
    /\ sitemap.handler = "sitemap.ts:18"
    /\ sitemap.pc = "loop"
    /\ sitemap.requests < MaxRequests
    /\ sitemap' = EntriesPass(Requested(sitemap), PageResponse(sitemap.page, PER_PAGE(sitemap.handler)))
    /\ UNCHANGED <<backend, notSitemapVars>>

InitSitemap ==
    /\ ConsoleIdle
    /\ SiteIdle
    /\ FetchIdle
    /\ FormIdle
    /\ ListIdle
    /\ GeneratorIdle
    /\ ArticleIdle
    /\ backend \in Backends
    /\ sitemap \in {NewSitemap(handler) : handler \in Handlers}

NextSitemap ==
    \/ GetGuarded
    \/ GetBounded
    \/ GetFetching
    \/ GetEntries

SpecSitemap == InitSitemap /\ [][NextSitemap]_vars

----------------------------------------------------------------------------
(* Properties of the sitemap *)

SitemapDone == sitemap.pc = "done"

\* the articles of the entries of the sitemap, in order
ArticlesOf(all) ==
    Concat([i \in 1..Len(all) |-> [k \in 1..all[i].count |-> all[i].first + k - 1]],
           1, Len(all))

\* the number of <url> entries returned
UrlCount == StaticEntries + Length(sitemap.all)

SeveralPages == backend.kind = "paged" /\ backend.articles > SentPerPage(sitemap.handler)

\* C22: when the backend holds its articles on several pages, the sitemap
\* the handler of part_018:23 returns has, besides the two static entries,
\* one entry for each article, none left out and none twice.
C22_OneEntryPerArticle ==
    sitemap.handler = "part_018:23" /\ SitemapDone /\ SeveralPages =>
        /\ sitemap.outcome = "sitemap"
        /\ ArticlesOf(sitemap.all) = [k \in 1..backend.articles |-> k]
        /\ UrlCount = StaticEntries + backend.articles

\* the handler has returned the sitemap of a backend with articles on
\* several pages after one request
C22_Witness ==
    /\ sitemap.handler = "part_018:23"
    /\ SitemapDone
    /\ SeveralPages
    /\ sitemap.outcome = "sitemap"
    /\ sitemap.requests = 1
    /\ Length(sitemap.all) < backend.articles

\* C23: whatever the backend answers, no handler makes more than 400
\* article-list requests.
C23_BoundedRequests == sitemap.requests <= SafetyLimit

\* a handler with a while (true) loop has made 400 requests and goes on
C23_Witness ==
    /\ sitemap.handler \in {"route.ts:166", "sitemap.ts:18"}
    /\ sitemap.requests = SafetyLimit
    /\ sitemap.pc = "loop"

\* the handlers with a for loop stop within 400 requests
GuardedAndBoundedStop ==
    sitemap.handler \in GuardedHandlers \cup {"route.ts:17"} =>
        /\ sitemap.requests <= SafetyLimit
        /\ sitemap.requests = SafetyLimit => SitemapDone

----------------------------------------------------------------------------
(* app/admin/app/page.tsx: the search results of the admin console and *)
(* their selection *)

MaxResults == 2
MaxSearches == 1
MaxPlans == 1

\* Of a SearchResultItem the url and the videoId are kept: nothing else of
\* it is read by the selection.
SearchResultItem(url, videoId) == [url |-> url, videoId |-> videoId]

isItemSelectable(item) ==
    /\ item.url # <<>>
    /\ ~item.videoId.null
    /\ item.videoId.value # <<>>

\* the callback of items.map in normalizeSearchResults; Null for null
normalizedResult(item) ==
    IF item.type # "object" THEN Null
    ELSE IF Get(item, "url").type # "string" \/ Get(item, "url").chars = <<>> THEN Null
    ELSE Str(SearchResultItem(
                 Get(item, "url").chars,
                 IF Get(item, "video_id").type = "string"
                    /\ Trim(Get(item, "video_id").chars) # <<>>
                 THEN Str(Get(item, "video_id").chars)
                 ELSE Null))

RECURSIVE NormalizedResults(_)
NormalizedResults(items) ==
    IF items = <<>> THEN <<>>
    ELSE IF normalizedResult(Head(items)).null THEN NormalizedResults(Tail(items))
    ELSE <<normalizedResult(Head(items)).value>> \o NormalizedResults(Tail(items))

normalizeSearchResults(data) ==
    IF data.type \notin {"object", "array"} THEN <<>>
    ELSE IF Get(data, "items").type # "array" THEN <<>>
    ELSE NormalizedResults(Get(data, "items").items)

\* searchResults.filter((item) => isItemSelectable(item)), as the set of
\* the positions kept
selectableResults(searchResults) ==
    {i \in 1..Len(searchResults) : isItemSelectable(searchResults[i])}

\* the updater of the effect on [searchResults]
PrunedSelection(previous, searchResults) ==
    {searchResults[i].url : i \in {k \in selectableResults(searchResults) :
                                       searchResults[k].url \in previous}}

\* selectableResults.filter((item) => selectedUrls.has(item.url))
selectedItems(a) ==
    {i \in selectableResults(a.searchResults) : a.searchResults[i].url \in a.selectedUrls}

\* searchFeedback: null, or the message that count results were found
NoFeedback == [type |-> "none"]
Found(count) == [type |-> "success", count |-> count]

INITIAL_ADMIN ==
    [query |-> <<>>, searchResults |-> <<>>, searchLoading |-> FALSE,
     searchFeedback |-> NoFeedback, searchError |-> FALSE, searchAttempted |-> FALSE,
     selectedUrls |-> {}, queuePlanLoading |-> FALSE, plans |-> 0]

\* the state after the render that follows the updates of a handler: the
\* effect on [searchResults] has run
Rendered(a) == [a EXCEPT !.selectedUrls = PrunedSelection(@, a.searchResults)]

\* the values typed into the query field
Queries == {<<>>, <<" ">>, <<"j", "o", "g", "a">>}

\* handleInputChange("query")
HandleInputChange ==
    \E query \in Queries :
        /\ admin' = [admin EXCEPT !.query = query]
        /\ UNCHANGED <<searches, notConsoleVars>>

\* handleSearch, up to the await of apiFetch
HandleSearch ==
    IF Trim(admin.query) = <<>>
    THEN /\ admin' = [admin EXCEPT !.searchError = TRUE, !.searchFeedback = NoFeedback,
                                   !.searchAttempted = TRUE]
         /\ UNCHANGED <<searches, notConsoleVars>>
    ELSE /\ Len(searches) < MaxSearches
         /\ admin' = [admin EXCEPT !.searchLoading = TRUE, !.searchError = FALSE,
                                   !.searchFeedback = NoFeedback, !.searchAttempted = TRUE]
         /\ searches' = Append(searches, Trim(admin.query))
         /\ UNCHANGED notConsoleVars

Without(s, i) == SubSeq(s, 1, i - 1) \o SubSeq(s, i + 1, Len(s))

\* handleSearch: the try block after the await, and the finally block
Searched(a, items) ==
    [a EXCEPT !.searchResults = items,
              !.selectedUrls = {},
              !.searchFeedback = IF Len(items) = 0 THEN NoFeedback ELSE Found(Len(items)),
              !.searchLoading = FALSE]

\* the items of the responses of POST /admin/search
RawResult(url, video_id) == RecordValue([url |-> url, video_id |-> video_id])

RawResults ==
    {RawResult(TextValue(<<"a">>), TextValue(<<"v">>)),
     RawResult(TextValue(<<"b">>), TextValue(<<"w">>)),
     RawResult(TextValue(<<"b">>), TextValue(<<" ">>)),
     RawResult(TextValue(<<>>), NoValue),
     NullValue}

SearchResponses ==
    {NullValue, RecordValue([total |-> FromInt(0)])}
    \cup {RecordValue([items |-> ArrayValue(items)]) : items \in SeqsUpTo(RawResults, MaxResults)}

\* the urls a checkbox can be toggled for
Urls == {<<>>, <<"a">>, <<"b">>, <<"c">>}

\* handleSearch: apiFetch has resolved for the i-th search awaited, and
\* items is what normalizeSearchResults makes of the response
SearchResolves(i, items) ==
    /\ admin' = Rendered(Searched(admin, items))
    /\ searches' = Without(searches, i)
    /\ UNCHANGED notConsoleVars

SearchSucceeds ==
    \E i \in 1..Len(searches), data \in SearchResponses :
        SearchResolves(i, normalizeSearchResults(data))

\* handleSearch: apiFetch rejects
SearchFails ==
    \E i \in 1..Len(searches) :
        /\ admin' = [admin EXCEPT !.searchError = TRUE, !.searchLoading = FALSE]
        /\ searches' = Without(searches, i)
        /\ UNCHANGED notConsoleVars

\* toggleSelectAll
ToggledAll(a, checked) ==
    IF ~checked THEN [a EXCEPT !.selectedUrls = {}]
    ELSE IF selectableResults(a.searchResults) = {} THEN [a EXCEPT !.selectedUrls = {}]
    ELSE [a EXCEPT !.selectedUrls =
                       {a.searchResults[i].url : i \in selectableResults(a.searchResults)}]

ToggleSelectAll ==
    \E checked \in BOOLEAN :
        /\ admin' = ToggledAll(admin, checked)
        /\ UNCHANGED <<searches, notConsoleVars>>

\* toggleSelection: selectableItem is found
selectableItemOfAny(a, url) == TRUE

selectableItem(a, url) ==
    \E i \in selectableResults(a.searchResults) : a.searchResults[i].url = url

\* toggleSelection
Toggled(a, url, checked) ==
    IF checked
    THEN IF ~selectableItem(a, url) \/ url \in a.selectedUrls THEN a
         ELSE [a EXCEPT !.selectedUrls = @ \cup {url}]
    ELSE IF url \notin a.selectedUrls THEN a
         ELSE [a EXCEPT !.selectedUrls = @ \ {url}]

ToggleSelection ==
    \E url \in Urls, checked \in BOOLEAN :
        /\ admin' = Toggled(admin, url, checked)
        /\ UNCHANGED <<searches, notConsoleVars>>

\* handleAddToQueue, up to the await of apiFetch; plans counts the requests
\* that await their response
HandleAddToQueue ==
    /\ selectedItems(admin) # {}
    /\ admin.plans < MaxPlans
    /\ admin' = [admin EXCEPT !.queuePlanLoading = TRUE, !.plans = @ + 1]
    /\ UNCHANGED <<searches, notConsoleVars>>

\* handleAddToQueue: apiFetch resolves (the selection is emptied) or rejects
QueuePlanEnds ==
    \E ok \in BOOLEAN :
        /\ admin.plans > 0
        /\ admin' = [admin EXCEPT !.queuePlanLoading = FALSE,
                                  !.plans = @ - 1,
                                  !.selectedUrls = IF ok THEN {} ELSE @]
        /\ UNCHANGED <<searches, notConsoleVars>>

InitConsole ==
    /\ SiteIdle
    /\ FetchIdle
    /\ FormIdle
    /\ ListIdle
    /\ GeneratorIdle
    /\ ArticleIdle
    /\ SitemapIdle
    /\ admin = INITIAL_ADMIN
    /\ searches = <<>>

NextConsole ==
    \/ HandleInputChange
    \/ HandleSearch
    \/ SearchSucceeds
    \/ SearchFails
    \/ ToggleSelectAll
    \/ ToggleSelection
    \/ HandleAddToQueue
    \/ QueuePlanEnds

SpecConsole == InitConsole /\ [][NextConsole]_vars

----------------------------------------------------------------------------
(* Properties of the admin console *)

\* the urls of the selectable results
SelectableUrls(a) == {a.searchResults[i].url : i \in selectableResults(a.searchResults)}

\* C24: the selected urls are always urls of selectable results (results
\* with a url and a videoId) of the current search, and a search that
\* succeeds leaves nothing selected.
C24_SelectionWithinResults ==
    [][/\ admin'.selectedUrls \subseteq SelectableUrls(admin')
       /\ (\E i \in 1..Len(searches) : SearchResolves(i, admin'.searchResults))
              => admin'.selectedUrls = {}]_vars

\* of the two results of a search the one with a videoId is selected, the
\* other has none, and the response of a new search is awaited
C24_Witness ==
    /\ admin.searchResults = <<SearchResultItem(<<"a">>, Str(<<"v">>)),
                               SearchResultItem(<<"b">>, Null)>>
    /\ admin.selectedUrls = {<<"a">>}
    /\ admin.searchLoading
    /\ Len(searches) = 1

----------------------------------------------------------------------------
(* site.ts: the cache of the site configuration over several calls, with *)
(* process.env.NEXT_PUBLIC_SITE_URL set and resetSiteConfigCache called in *)
(* between, as the tests do in beforeEach and afterEach *)

\* the calls made one after the other
CachedCalls ==
    {Call("getSiteBaseUrl", <<>>, NoSearch),
     Call("buildCanonicalUrl", <<"/", "a", "r", "t", "y", "k", "u", "l", "y">>, NoSearch),
     Call("buildArticleCanonical", <<"f", "o", "o">>, NoSearch),
     Call("assertValidCanonical", <<"h", "t", "t", "p", "s", ":", "/", "/", "e", "x", "a", "m", "p", "l", "e", ".", "c", "o", "m", "/", "b", "l", "o", "g", "/", "a", "r", "t", "y", "k", "u", "l", "y">>, NoSearch),
     Call("assertValidCanonical", <<"h", "t", "t", "p", "s", ":", "/", "/", "w", "i", "e", "d", "z", "a", ".", "j", "o", "g", "a", ".", "y", "o", "g", "a", "/", "a", "r", "t", "y", "k", "u", "l", "y">>, NoSearch)}

\* no call of an export is being made
NoCallRuns == IF siteCall = NoCall THEN TRUE ELSE siteCall.done

\* an export of site.ts is called
CallExport ==
    /\ NoCallRuns
    /\ siteCall' \in CachedCalls
    /\ UNCHANGED <<siteUrlEnv, nodeEnv, cachedSiteConfig, notSiteVars>>

\* process.env.NEXT_PUBLIC_SITE_URL = value, or delete of it
SetSiteUrl ==
    /\ NoCallRuns
    /\ siteUrlEnv' \in ({Undefined} \cup {Defined(v) : v \in SiteUrlValues}) \ {siteUrlEnv}
    /\ UNCHANGED <<nodeEnv, cachedSiteConfig, siteCall, notSiteVars>>

\* resetSiteConfigCache
ResetSiteConfigCache ==
    /\ NoCallRuns
    /\ cachedSiteConfig' = NoSiteConfig
    /\ UNCHANGED <<siteUrlEnv, nodeEnv, siteCall, notSiteVars>>

InitSiteCache ==
    /\ siteUrlEnv \in {Undefined} \cup {Defined(v) : v \in SiteUrlValues}
    /\ nodeEnv \in {"test", "production"}
    /\ cachedSiteConfig = NoSiteConfig
    /\ siteCall = NoCall
    /\ FetchIdle
    /\ FormIdle
    /\ ListIdle
    /\ GeneratorIdle
    /\ ArticleIdle
    /\ SitemapIdle
    /\ ConsoleIdle

NextSiteCache ==
    \/ CallExport
    \/ SetSiteUrl
    \/ ResetSiteConfigCache
    \/ AssertValidCanonical
    \/ BuildCanonicalUrl
    \/ BuildArticleCanonical
    \/ GetSiteBaseUrl

SpecSiteCache == InitSiteCache /\ [][NextSiteCache]_vars

----------------------------------------------------------------------------
(* Properties of the cache of the site configuration *)

\* the call being made ends in this step
CallEnds == siteCall # NoCall /\ ~siteCall.done /\ siteCall'.done

\* what the call ends with under a site configuration
ResultUnder(config, call) ==
    IF call.op = "getSiteBaseUrl" THEN Returned(config.baseUrl)
    ELSE IF call.op = "buildCanonicalUrl" THEN buildCanonicalUrl(config, call.arg, call.search)
    ELSE IF call.op = "buildArticleCanonical" THEN buildArticleCanonical(config, call.arg)
    ELSE assertValidCanonical(config, call.arg)

\* what process.env.NEXT_PUBLIC_SITE_URL and NODE_ENV resolve to now
FromEnvironment ==
    SiteConfigFromRaw(
        ParseURL(IF siteUrlEnv.defined THEN siteUrlEnv.value ELSE DEFAULT_SITE_URL), nodeEnv)

\* a call that finds a cached configuration leaves it and ends with the
\* result under it, whatever the environment says now
UsesCache ==
    CallEnds /\ cachedSiteConfig # NoSiteConfig =>
        /\ cachedSiteConfig' = cachedSiteConfig
        /\ siteCall'.result = ResultUnder(cachedSiteConfig, siteCall)

\* a call that finds no cached configuration resolves the environment: it
\* caches the configuration and ends with the result under it, or it throws
\* and caches nothing
ResolvesAfresh ==
    CallEnds /\ cachedSiteConfig = NoSiteConfig =>
        IF FromEnvironment.ok
        THEN /\ cachedSiteConfig' = FromEnvironment.config
             /\ siteCall'.result = ResultUnder(FromEnvironment.config, siteCall)
        ELSE /\ cachedSiteConfig' = NoSiteConfig
             /\ siteCall'.result = Thrown(FromEnvironment.error)

\* C25: once a configuration is cached it stays, and every call ends with
\* the result under it even when NEXT_PUBLIC_SITE_URL has changed, until
\* resetSiteConfigCache; a call whose resolution throws caches nothing, and
\* a call that finds nothing cached resolves the environment again.
C25_ResolvedOncePerReset ==
    [][/\ (cachedSiteConfig # NoSiteConfig /\ ~ResetSiteConfigCache)
              => cachedSiteConfig' = cachedSiteConfig
       /\ UsesCache
       /\ ResolvesAfresh]_vars

\* a call has returned the base URL of the cached configuration while
\* NEXT_PUBLIC_SITE_URL is a value that does not resolve
C25_Witness ==
    /\ cachedSiteConfig # NoSiteConfig
    /\ siteCall # NoCall
    /\ siteCall.done
    /\ siteCall.op = "getSiteBaseUrl"
    /\ siteCall.result = Returned(cachedSiteConfig.baseUrl)
    /\ ~FromEnvironment.ok

====
